---- MODULE Spec2Model ----
(***************************************************************************)
(* Model of the MCCFR Profile (src/src/mccfr/profile.rs), of the           *)
(* clustering Metric (src/src/clustering/metric.rs), of the clustering     *)
(* Layer (src/src/clustering/layer.rs) and of the PGCOPY artifact files    *)
(* (metric.rs, learner.rs).                                                *)
(*                                                                         *)
(* Probability, Utility and Energy are f32 in the source.  They are        *)
(* modelled as binary floating-point numbers <<m, e>> of value m * 2^e     *)
(* with the exponent range of f32 (smallest normal 2^-126, gradual         *)
(* underflow), round-to-nearest-even after every operation, and a          *)
(* significand of PrecBits bits instead of 24.  Infinities and NaN are not *)
(* represented: no operation of the model divides by zero, and the         *)
(* exponent is not bounded above, so that a quotient beyond f32::MAX (a    *)
(* payoff over a subnormal reach) stays a finite number of the model.      *)
(***************************************************************************)
EXTENDS Integers, Sequences, FiniteSets, TLC

\* ------------------------------------------------------------------ bounds
\* significand width of the modelled floats (f32 has 24)
PrecBits == 6
\* Profile::next is not called once iterations has reached MaxIter
MaxIter == 6
\* at most MaxUpdates calls of update_regret and update_policy are made
MaxUpdates == 3
\* at most MaxFreeUpdates calls are made by the callers with any vector
MaxFreeUpdates == 4
\* Lloyd iterations of a clustered street (Street::t)
MaxRounds == 2

\* ----------------------------------------------------------- f32 arithmetic
\* exponent of f32::MIN_POSITIVE = 2^-126
MinExp == -126
\* exponent of the least significant bit of a subnormal
QExp == MinExp - (PrecBits - 1)
Hidden == 2 ^ (PrecBits - 1)
Limit == 2 ^ PrecBits

Zero == <<0, QExp>>
One == <<Hidden, 0 - (PrecBits - 1)>>
MIN_POSITIVE == <<Hidden, QExp>>

Abs(n) == IF n < 0 THEN 0 - n ELSE n
Sgn(n) == IF n < 0 THEN 0 - 1 ELSE 1

\* n / d rounded to the nearest integer, ties to even (n >= 0, d > 0)
RoundEven(n, d) ==
    LET q == n \div d
        r == n % d
    IN  IF 2 * r > d \/ (2 * r = d /\ q % 2 = 1) THEN q + 1 ELSE q

\* (n / d) * 2^e with n / d in [Hidden, Limit): the nearest float
Pack(n, d, e) ==
    IF e >= QExp
    THEN LET m == RoundEven(n, d)
         IN  IF m = Limit THEN <<Hidden, e + 1>> ELSE <<m, e>>
    ELSE IF QExp - e > PrecBits + 1
         THEN <<0, QExp>>
         ELSE <<RoundEven(n, d * 2 ^ (QExp - e)), QExp>>

\* scale n / d into [Hidden, Limit), then round
RECURSIVE Scale(_, _, _)
Scale(n, d, e) ==
    IF n = 0 THEN <<0, QExp>>
    ELSE IF n >= d * Limit THEN Scale(n, 2 * d, e + 1)
    ELSE IF n < d * Hidden THEN Scale(2 * n, d, e - 1)
    ELSE Pack(n, d, e)

\* the one element of a singleton set; the operators below bind their
\* operands to values with it, so that each operand is evaluated once
The(S) == CHOOSE r \in S : TRUE

\* the float nearest to (n / d) * 2^e, for any integer n and d > 0
Round(n, d, e) == The({<<Sgn(n) * r[1], r[2]>> : r \in {Scale(Abs(n), d, e)}})

FromInt(k) == Round(k, 1, 0)
FNeg(x) == The({<<0 - a[1], a[2]>> : a \in {x}})

FMul(x, y) == The({Round(a[1] * b[1], 1, a[2] + b[2]) : a \in {x}, b \in {y}})

FDiv(x, y) ==
    The({Round(Sgn(b[1]) * a[1], Abs(b[1]), a[2] - b[2]) : a \in {x}, b \in {y}})

AddV(x, y) ==
    IF x[1] = 0 THEN y
    ELSE IF y[1] = 0 THEN x
    ELSE IF x[2] - y[2] > PrecBits + 1 THEN x
    ELSE IF y[2] - x[2] > PrecBits + 1 THEN y
    ELSE IF x[2] >= y[2]
         THEN Round(x[1] * 2 ^ (x[2] - y[2]) + y[1], 1, y[2])
         ELSE Round(y[1] * 2 ^ (y[2] - x[2]) + x[1], 1, x[2])
FAdd(x, y) == The({AddV(a, b) : a \in {x}, b \in {y}})

FSub(x, y) == FAdd(x, FNeg(y))

\* x < y
LtV(x, y) ==
    IF x[1] < 0 /\ y[1] < 0
    THEN x[2] > y[2] \/ (x[2] = y[2] /\ x[1] < y[1])
    ELSE IF x[1] < 0 \/ y[1] < 0 THEN x[1] < y[1]
    ELSE IF x[1] = 0 \/ y[1] = 0 THEN x[1] < y[1]
    ELSE x[2] < y[2] \/ (x[2] = y[2] /\ x[1] < y[1])
FLt(x, y) == \E a \in {x}, b \in {y} : LtV(a, b)

FLe(x, y) == \E a \in {x}, b \in {y} : a = b \/ LtV(a, b)
\* f32::max
FMax(x, y) == The({IF LtV(a, b) THEN b ELSE a : a \in {x}, b \in {y}})

\* sum of a sequence of floats, left to right from 0.0 (Iterator::sum)
RECURSIVE FSum(_)
FSum(s) == IF s = <<>> THEN Zero ELSE FAdd(FSum(SubSeq(s, 1, Len(s) - 1)), s[Len(s)])

\* values().fold(seed, f32::max) over a map
RECURSIVE FoldMax(_, _)
FoldMax(seed, f) ==
    IF DOMAIN f = {} THEN seed
    ELSE LET k == CHOOSE k \in DOMAIN f : TRUE
         IN  FoldMax(FMax(seed, f[k]), [j \in DOMAIN f \ {k} |-> f[j]])

\* ------------------------------------------------------------- game tree
\* The Tree the profile is handed: an arena of nodes.  A chance root (0),
\* two heads of the first player's information set "b1" (1 and 2), one node
\* of the second player (3, three outgoing edges) and six leaves.
Nodes == 0 .. 9
Root == 0
Parent == [n \in Nodes |-> CASE n \in {1, 2} -> 0
                             [] n \in {3, 4} -> 1
                             [] n \in {5, 6} -> 2
                             [] n \in {7, 8, 9} -> 3
                             [] OTHER -> 0 - 1]
Incoming == [n \in Nodes |-> CASE n \in {1, 3, 5, 7} -> 1
                               [] n \in {2, 4, 6, 8} -> 2
                               [] n = 9 -> 3
                               [] OTHER -> 0]
PlayerOf == [n \in Nodes |-> CASE n \in {1, 2} -> "choice0"
                               [] n = 3 -> "choice1"
                               [] OTHER -> "chance"]
BucketOf == [n \in Nodes |-> CASE n = 0 -> "b0"
                               [] n \in {1, 2} -> "b1"
                               [] n = 3 -> "b2"
                               [] OTHER -> "leaf"]
\* payoff of a leaf to the first player; the game is zero-sum
PayoffOf == [n \in Nodes |-> CASE n = 4 -> 1
                               [] n = 5 -> 0 - 1
                               [] n = 6 -> 2
                               [] n = 7 -> 0 - 2
                               [] n = 8 -> 0
                               [] n = 9 -> 3
                               [] OTHER -> 0]
Buckets == {"b0", "b1", "b2"}
Infosets == {"b1", "b2"}

HasParent(n) == n # Root
ChildrenOf == [n \in Nodes |-> {c \in Nodes : c # Root /\ Parent[c] = n}]
Children(n) == ChildrenOf[n]
\* node.data().edges() and node.outgoing(): the edges leaving a node
Outgoing(n) == {Incoming[c] : c \in Children(n)}
Follow(n, e) == CHOOSE c \in Children(n) : Incoming[c] = e
IsLeaf(n) == Children(n) = {}

\* the elements of a set of integers in increasing order (BTreeMap order)
RECURSIVE Sorted(_)
Sorted(S) ==
    IF S = {} THEN <<>>
    ELSE LET m == CHOOSE x \in S : \A y \in S : x <= y
         IN  <<m>> \o Sorted(S \ {m})

RECURSIVE Descendants(_)
Descendants(n) ==
    IF IsLeaf(n) THEN {n} ELSE UNION {Descendants(c) : c \in Children(n)}
\* node.leaves(): the leaves below a node, a leaf being its own leaf
LeavesOf == [n \in Nodes |-> Sorted({l \in Descendants(n) : IsLeaf(l)})]
Leaves(n) == LeavesOf[n]
RECURSIVE Ancestors(_)
Ancestors(n) == IF HasParent(n) THEN {Parent[n]} \cup Ancestors(Parent[n]) ELSE {}

\* infoset.node(tree) and infoset.heads(tree)
InfoNode(I) == CHOOSE n \in Nodes : BucketOf[n] = I /\ \A m \in Nodes : BucketOf[m] = I => n <= m
HeadsOf == [I \in Infosets |-> Sorted({n \in Nodes : BucketOf[n] = I})]
Heads(I) == HeadsOf[I]
Payoff(leaf, player) ==
    IF player = "choice0" THEN FromInt(PayoffOf[leaf]) ELSE FromInt(0 - PayoffOf[leaf])

\* ---------------------------------------------------------------- Profile
VARIABLES
    iterations,   \* Profile.iterations
    strategies,   \* Profile.strategies : Bucket -> (Edge -> Strategy)
    ret,          \* the last call made, its arguments and result
    halted,       \* a call has panicked
    updates,      \* number of update_regret / update_policy calls made
    metric,       \* Metric.0 : Pair -> Energy
    layer,        \* the Layer in memory: street, metric, points, kmeans
    disk          \* the artifact files: name -> bytes

vars == <<iterations, strategies, ret, halted, updates, metric, layer, disk>>

\* no Layer has been loaded
NoLayer == [street |-> "", metric |-> <<>>, points |-> <<>>, kmeans |-> <<>>]

\* Strategy::default() with the policy set
Strategy(r, p, a) == [regret |-> r, policy |-> p, advice |-> a]

NoCall == [op |-> "none", ok |-> TRUE, bucket |-> "", node |-> 0, edge |-> 0,
           vec |-> <<>>, val |-> Zero, n |-> 0, seen |-> FALSE,
           x |-> <<"", 0>>, y |-> <<"", 0>>,
           street |-> "", run |-> <<>>, out |-> <<>>]

epochs == iterations \div 2
walker == IF iterations % 2 = 0 THEN "choice0" ELSE "choice1"

\* the lookup of Profile::strategy succeeds
Visited(bucket, edge) ==
    bucket \in DOMAIN strategies /\ edge \in DOMAIN strategies[bucket]

Init ==
    /\ iterations = 0
    /\ strategies = <<>>
    /\ ret = NoCall
    /\ halted = FALSE
    /\ updates = 0
    /\ metric = <<>>
    /\ layer = NoLayer
    /\ disk = <<>>

\* next that counts an epoch, two iterations, at a time
next_epoch ==
    /\ ~halted
    /\ iterations + 1 < MaxIter
    /\ iterations' = iterations + 2
    /\ ret' = [NoCall EXCEPT !.op = "next", !.n = iterations + 2]
    /\ UNCHANGED <<strategies, halted, updates, metric, layer, disk>>

next ==
    /\ ~halted
    /\ iterations < MaxIter
    /\ iterations' = iterations + 1
    /\ ret' = [NoCall EXCEPT !.op = "next", !.n = iterations + 1]
    /\ UNCHANGED <<strategies, halted, updates, metric, layer, disk>>

\* the uniform policy with an off-by-one count of the options
UniformOffByOne(options) == FDiv(One, FromInt(Cardinality(options) + 1))

Uniform(options) == FDiv(One, FromInt(Cardinality(options)))

\* witness without the contains_key test: the policy of a visited bucket is
\* reset to uniform (or_insert_with keeps its regret and advice)
WitnessedUnguarded(node) ==
    IF Outgoing(node) = {} THEN strategies
    ELSE (BucketOf[node] :> [edge \in Outgoing(node) |->
            IF Visited(BucketOf[node], edge)
            THEN [strategies[BucketOf[node]][edge] EXCEPT !.policy = Uniform(Outgoing(node))]
            ELSE Strategy(Zero, Uniform(Outgoing(node)), Zero)])
         @@ strategies

Witnessed(node) ==
    IF BucketOf[node] \in DOMAIN strategies \/ Outgoing(node) = {}
    THEN strategies
    ELSE (BucketOf[node] :> [edge \in Outgoing(node) |->
                                Strategy(Zero, Uniform(Outgoing(node)), Zero)])
         @@ strategies

witness(node) ==
    /\ ~halted
    /\ strategies' = Witnessed(node)
    /\ ret' = [NoCall EXCEPT !.op = "witness", !.node = node,
                             !.bucket = BucketOf[node],
                             !.seen = (BucketOf[node] \in DOMAIN strategies)]
    /\ UNCHANGED <<iterations, halted, updates, metric, layer, disk>>

\* ------------------------------------------ reach, value, regret (read-only)
\* Every lookup made while computing the regret or policy vector of an
\* information set succeeds: the bucket of the information set holds all its
\* outgoing edges, and so does every choice node on a path from the root to
\* a leaf below one of its heads.
PathVisited(leaf) ==
    \A a \in Ancestors(leaf) \cup {leaf} :
        (HasParent(a) /\ PlayerOf[Parent[a]] # "chance")
            => Visited(BucketOf[Parent[a]], Incoming[a])
VectorOk(I) ==
    /\ PlayerOf[InfoNode(I)] = walker
    /\ \A e \in Outgoing(InfoNode(I)) : Visited(I, e)
InstantOk(I) ==
    \A i \in 1 .. Len(Heads(I)) :
        \A l \in Descendants(Heads(I)[i]) : IsLeaf(l) => PathVisited(l)

\* reach giving a chance edge the probability of one of two branches
reach_of_two_branches(head, edge) ==
    IF PlayerOf[head] = "chance" THEN FDiv(One, FromInt(2))
    ELSE strategies[BucketOf[head]][edge].policy

reach(head, edge) ==
    IF PlayerOf[head] = "chance" THEN One
    ELSE strategies[BucketOf[head]][edge].policy

RECURSIVE external_reach(_)
external_reach(node) ==
    IF HasParent(node)
    THEN IF PlayerOf[Parent[node]] = walker
         THEN external_reach(Parent[node])
         ELSE FMul(external_reach(Parent[node]), reach(Parent[node], Incoming[node]))
    ELSE One

RECURSIVE profiled_reach(_)
profiled_reach(head) ==
    IF HasParent(head)
    THEN FMul(profiled_reach(Parent[head]), reach(Parent[head], Incoming[head]))
    ELSE One

RECURSIVE relative_reach(_, _)
relative_reach(root, leaf) ==
    IF BucketOf[root] = BucketOf[leaf] THEN One
    ELSE FMul(relative_reach(root, Parent[leaf]), reach(Parent[leaf], Incoming[leaf]))

terminal_value(head, leaf) ==
    FMul(FDiv(Payoff(leaf, walker), external_reach(leaf)), relative_reach(head, leaf))

expected_value(head) ==
    LET leaves == Leaves(head)
    IN  FMul(profiled_reach(head),
             FSum([i \in 1 .. Len(leaves) |-> terminal_value(head, leaves[i])]))

cfactual_value(head, edge) ==
    LET leaves == Leaves(Follow(head, edge))
    IN  FMul(external_reach(head),
             FSum([i \in 1 .. Len(leaves) |-> terminal_value(head, leaves[i])]))

gain(head, edge) == FSub(cfactual_value(head, edge), expected_value(head))

instant_regret(I, edge) ==
    LET heads == Heads(I)
    IN  FSum([i \in 1 .. Len(heads) |-> gain(heads[i], edge)])

running_regret(I, edge) == strategies[BucketOf[InfoNode(I)]][edge].regret

accrued_regret(I, edge) == FAdd(running_regret(I, edge), instant_regret(I, edge))

\* regret_vector without the floor at MIN_POSITIVE
regret_vector_unfloored(I) ==
    [action \in Outgoing(InfoNode(I)) |-> accrued_regret(I, action)]

regret_vector(I) ==
    [action \in Outgoing(InfoNode(I)) |-> FMax(accrued_regret(I, action), MIN_POSITIVE)]

FlooredRegrets(I) ==
    [action \in Outgoing(InfoNode(I)) |-> FMax(running_regret(I, action), MIN_POSITIVE)]

\* the values of a map in key order (BTreeMap::values)
Values(f) == [i \in 1 .. Cardinality(DOMAIN f) |-> f[Sorted(DOMAIN f)[i]]]

\* policy_vector normalising by the largest regret instead of the sum
policy_vector_by_max(I) ==
    LET regrets == FlooredRegrets(I)
        max == FoldMax(MIN_POSITIVE, regrets)
    IN  [a \in DOMAIN regrets |-> FDiv(regrets[a], max)]

policy_vector(I) ==
    LET regrets == FlooredRegrets(I)
        sum == FSum(Values(regrets))
    IN  [a \in DOMAIN regrets |-> FDiv(regrets[a], sum)]

\* ------------------------------------------------------------- the updates
\* The edges of the vector that are written before the first failing lookup
\* of Profile::strategy: the vector is walked in key order.
Written(bucket, vector) ==
    {e \in DOMAIN vector : \A f \in DOMAIN vector : f <= e => Visited(bucket, f)}
Panics(bucket, vector) == \E e \in DOMAIN vector : ~Visited(bucket, e)

\* update_regret adding the vector to the stored regret
RegretAccumulated(bucket, vector) ==
    IF bucket \notin DOMAIN strategies THEN strategies
    ELSE [strategies EXCEPT ![bucket] =
            [e \in DOMAIN @ |->
                IF e \in Written(bucket, vector)
                THEN [@[e] EXCEPT !.regret = FAdd(@, vector[e])]
                ELSE @[e]]]

RegretUpdated(bucket, vector) ==
    IF bucket \notin DOMAIN strategies THEN strategies
    ELSE [strategies EXCEPT ![bucket] =
            [e \in DOMAIN @ |->
                IF e \in Written(bucket, vector)
                THEN [@[e] EXCEPT !.regret = vector[e]]
                ELSE @[e]]]

\* the running average weighted by iterations instead of epochs
AveragedByIterations(advice, policy) ==
    FDiv(FAdd(FMul(advice, FromInt(iterations)), policy), FAdd(FromInt(iterations), One))

Averaged(advice, policy) ==
    FDiv(FAdd(FMul(advice, FromInt(epochs)), policy), FAdd(FromInt(epochs), One))

\* update_policy reaching the strategy by entry().or_insert_with, as witness does
PolicyInserted(bucket, vector) ==
    [b \in DOMAIN strategies \cup {bucket} |->
        [e \in (IF b \in DOMAIN strategies THEN DOMAIN strategies[b] ELSE {})
                 \cup (IF b = bucket THEN DOMAIN vector ELSE {}) |->
            IF b = bucket /\ e \in DOMAIN vector
            THEN [policy |-> vector[e],
                  regret |-> IF Visited(b, e) THEN strategies[b][e].regret ELSE Zero,
                  advice |-> Averaged(IF Visited(b, e) THEN strategies[b][e].advice ELSE Zero,
                                      vector[e])]
            ELSE strategies[b][e]]]

PolicyUpdated(bucket, vector) ==
    IF bucket \notin DOMAIN strategies THEN strategies
    ELSE [strategies EXCEPT ![bucket] =
            [e \in DOMAIN @ |->
                IF e \in Written(bucket, vector)
                THEN [@[e] EXCEPT !.policy = vector[e],
                                  !.advice = Averaged(@, vector[e])]
                ELSE @[e]]]

update_regret(bucket, vector) ==
    /\ ~halted
    /\ updates' = updates + 1
    /\ strategies' = RegretUpdated(bucket, vector)
    /\ halted' = Panics(bucket, vector)
    /\ ret' = [NoCall EXCEPT !.op = "update_regret", !.bucket = bucket,
                             !.vec = vector, !.ok = ~Panics(bucket, vector)]
    /\ UNCHANGED <<iterations, metric, layer, disk>>

update_policy(bucket, vector) ==
    /\ ~halted
    /\ updates' = updates + 1
    /\ strategies' = PolicyUpdated(bucket, vector)
    /\ halted' = Panics(bucket, vector)
    /\ ret' = [NoCall EXCEPT !.op = "update_policy", !.bucket = bucket,
                             !.vec = vector, !.n = epochs,
                             !.ok = ~Panics(bucket, vector)]
    /\ UNCHANGED <<iterations, metric, layer, disk>>

\* a failed assertion or lookup of a read-only call
panic(op, bucket) ==
    /\ ~halted
    /\ halted' = TRUE
    /\ ret' = [NoCall EXCEPT !.op = op, !.bucket = bucket, !.ok = FALSE]
    /\ UNCHANGED <<iterations, strategies, updates, metric, layer, disk>>

\* update_regret(bucket, regret_vector(tree, infoset)), as the trainer calls it
train_regret(I) ==
    /\ updates < MaxUpdates
    /\ IF VectorOk(I) /\ InstantOk(I)
       THEN \E vector \in {regret_vector(I)} : update_regret(I, vector)
       ELSE panic("regret_vector", I)

\* update_policy(bucket, policy_vector(tree, infoset)), as the trainer calls it
train_policy(I) ==
    /\ updates < MaxUpdates
    /\ IF VectorOk(I)
       THEN \E vector \in {policy_vector(I)} : update_policy(I, vector)
       ELSE panic("policy_vector", I)

\* policy without the walker assertion and with 0 for an unseen edge
policy_unchecked(node, edge) ==
    /\ ~halted
    /\ ret' = [NoCall EXCEPT !.op = "policy", !.node = node,
                  !.bucket = BucketOf[node], !.edge = edge,
                  !.seen = Visited(BucketOf[node], edge),
                  !.val = IF Visited(BucketOf[node], edge)
                          THEN strategies[BucketOf[node]][edge].policy
                          ELSE Zero]
    /\ UNCHANGED <<iterations, strategies, halted, updates, metric, layer, disk>>

\* Profile::policy(node, edge)
policy(node, edge) ==
    /\ ~halted
    /\ IF PlayerOf[node] = "chance" \/ PlayerOf[node] = walker
       THEN /\ halted' = TRUE
            /\ ret' = [NoCall EXCEPT !.op = "policy", !.node = node,
                          !.bucket = BucketOf[node], !.edge = edge, !.ok = FALSE]
            /\ UNCHANGED <<iterations, strategies, updates, metric, layer, disk>>
       ELSE /\ ret' = [NoCall EXCEPT !.op = "policy", !.node = node,
                          !.bucket = BucketOf[node], !.edge = edge,
                          !.seen = Visited(BucketOf[node], edge),
                          !.val = IF Visited(BucketOf[node], edge)
                                  THEN strategies[BucketOf[node]][edge].policy
                                  ELSE MIN_POSITIVE]
            /\ UNCHANGED <<iterations, strategies, halted, updates, metric, layer, disk>>

\* the nodes the callers witness: every inner node and one leaf
WitnessNodes == {0, 1, 2, 3, 4}
\* the (node, edge) pairs asked of Profile::policy
QueryNodes == {0, 1, 3}
QueryEdges == {1, 3}

\* training: the vectors handed to the updates come from the profile itself
Next ==
    \/ next
    \/ \E node \in WitnessNodes : witness(node)
    \/ \E I \in Infosets : train_regret(I)
    \/ \E I \in Infosets : train_policy(I)
    \/ \E node \in QueryNodes, edge \in QueryEdges : policy(node, edge)

Spec == Init /\ [][Next]_vars

\* ------------------------------------------------- callers with any vector
Half == FDiv(One, FromInt(2))
\* the calls of update_regret and update_policy made by an arbitrary caller:
\* whole, partial and empty vectors, negative regrets, an edge ("b1" has no
\* edge 3) and buckets (until witnessed) that the profile does not hold
RegretCalls ==
    {<<"b2", <<>>>>,
     <<"b1", (1 :> FromInt(2))>>,
     <<"b1", (1 :> FromInt(0 - 1)) @@ (2 :> FromInt(2))>>,
     <<"b1", (2 :> FromInt(0 - 1)) @@ (3 :> FromInt(2))>>,
     <<"b2", (2 :> FromInt(0 - 1)) @@ (3 :> FromInt(2))>>}
PolicyCalls ==
    {<<"b2", <<>>>>,
     <<"b1", (1 :> Zero)>>,
     <<"b1", (1 :> Half)>>,
     <<"b1", (1 :> One)>>,
     <<"b2", (1 :> Half) @@ (2 :> Half)>>}
FreeNodes == {1, 3}

call_update_regret ==
    \E c \in RegretCalls : updates < MaxFreeUpdates /\ update_regret(c[1], c[2])
call_update_policy ==
    \E c \in PolicyCalls : updates < MaxFreeUpdates /\ update_policy(c[1], c[2])

NextFree ==
    \/ next
    \/ \E node \in FreeNodes : witness(node)
    \/ call_update_regret
    \/ call_update_policy

SpecFree == Init /\ [][NextFree]_vars

\* ------------------------------------------------------------------ Metric
Learned(i) == <<"Learned", i>>
Percent(i) == <<"Percent", i>>
Preflop(i) == <<"Preflop", i>>
Abstractions == {Learned(0), Learned(1), Learned(2), Percent(0), Percent(1), Preflop(0)}
\* Pair::from((x, y)): the unordered pair
Pair(x, y) == {x, y}
P1 == Pair(Learned(0), Learned(1))
P2 == Pair(Learned(0), Learned(2))
P3 == Pair(Learned(1), Learned(2))
\* Equity.distance of two Percent abstractions
EquityDistance(x, y) == FromInt(Abs(x[2] - y[2]))

\* Metric::from folding the maximum from 1.0 instead of MIN_POSITIVE
FromSeededOne(raw) ==
    The({[index \in DOMAIN raw |-> FDiv(raw[index], max)] :
            max \in {FoldMax(One, raw)}})

\* impl From<BTreeMap<Pair, Energy>> for Metric
From(raw) ==
    The({[index \in DOMAIN raw |-> FDiv(raw[index], max)] :
            max \in {FoldMax(MIN_POSITIVE, raw)}})

from(raw) ==
    /\ ret.op = "none"
    /\ metric' = From(raw)
    /\ ret' = [NoCall EXCEPT !.op = "from", !.vec = raw]
    /\ UNCHANGED <<iterations, strategies, halted, updates, layer, disk>>

\* Metric::lookup
Stored(x, y) == x = y \/ Pair(x, y) \in DOMAIN metric
lookup(x, y) == IF x = y THEN Zero ELSE metric[Pair(x, y)]

\* distance keyed by the ordered pair: only (x, y) with x before y is found
AnswersOrdered(x, y) ==
    \/ x[1] = "Learned" /\ y[1] = "Learned" /\ (x = y \/ (Stored(x, y) /\ x[2] < y[2]))
    \/ x[1] = "Percent" /\ y[1] = "Percent"

\* the arms of Measure::distance that return: the others are unreachable!()
Answers(x, y) ==
    \/ x[1] = "Learned" /\ y[1] = "Learned" /\ Stored(x, y)
    \/ x[1] = "Percent" /\ y[1] = "Percent"

\* impl Measure for Metric: distance(x, y)
distance(x, y) ==
    /\ ~halted
    /\ halted' = ~Answers(x, y)
    /\ ret' = [NoCall EXCEPT !.op = "distance", !.x = x, !.y = y,
                  !.ok = Answers(x, y),
                  !.val = IF ~Answers(x, y) THEN Zero
                          ELSE IF x[1] = "Learned" THEN lookup(x, y)
                          ELSE EquityDistance(x, y)]
    /\ UNCHANGED <<iterations, strategies, updates, metric, layer, disk>>

\* the raw distances handed to Metric::from: zero, a subnormal, the smallest
\* normal number and three larger values
RawValues ==
    {Zero, FDiv(MIN_POSITIVE, FromInt(4)), MIN_POSITIVE, FromInt(2), FromInt(4), FromInt(8)}
RawMaps == UNION {[D -> RawValues] : D \in SUBSET {P1, P2, P3}}

NextMetric ==
    \/ \E raw \in RawMaps : from(raw)
    \/ \E x \in Abstractions, y \in Abstractions : distance(x, y)

SpecMetric == Init /\ [][NextMetric]_vars

\* ------------------------------------------------------------------- Layer
Streets == {"Rive", "Turn", "Flop", "Pref"}
\* Street::next: the street dealt after this one
StreetNext == [s \in {"Pref", "Flop", "Turn"} |->
                 IF s = "Pref" THEN "Flop" ELSE IF s = "Flop" THEN "Turn" ELSE "Rive"]
\* Street::k, the number of centroids: none on the river (an empty metric is
\* the river's, Metric::street), scaled down on the other streets so that,
\* as with 200, 200 and 169, no K(K-1)/2 is 0 or one of the K
StreetK == [s \in Streets |->
              IF s = "Rive" THEN 0 ELSE IF s = "Pref" THEN 5 ELSE 4]
\* Street::t, the number of Lloyd iterations
StreetT == [s \in Streets |-> IF s = "Rive" THEN 0 ELSE MaxRounds]
\* Street::n_isomorphisms, scaled down; IsomorphismIterator::from(street)
\* enumerates 1 .. n in order
StreetN == [s \in Streets |-> IF s = "Rive" THEN 4 ELSE 6]
Isomorphisms(street) == [i \in 1 .. StreetN[street] |-> i]

\* Histogram: Abstraction -> count; Histogram::default() is empty
NoHistogram == <<>>
Support(h) == DOMAIN h
Mass(h) == LET RECURSIVE Total(_)
               Total(S) == IF S = {} THEN 0
                           ELSE LET a == CHOOSE a \in S : TRUE
                                IN  h[a] + Total(S \ {a})
           IN  Total(DOMAIN h)
\* Histogram::absorb: pointwise sum
Absorb(h, g) ==
    [a \in DOMAIN h \cup DOMAIN g |->
        (IF a \in DOMAIN h THEN h[a] ELSE 0) + (IF a \in DOMAIN g THEN g[a] ELSE 0)]
\* Histogram::peek: one key of a histogram that holds one
Peek(h) == CHOOSE a \in DOMAIN h : \A b \in DOMAIN h : a[2] <= b[2]
\* the density of a histogram at an abstraction, 0 outside the support
DensityAt(h, a) ==
    IF a \in DOMAIN h /\ h[a] > 0 THEN FDiv(FromInt(h[a]), FromInt(Mass(h))) ELSE Zero
\* the keys of two histograms in the order of Abstraction
KeySeq(S) ==
    LET RECURSIVE Order(_)
        Order(R) == IF R = {} THEN <<>>
                    ELSE LET a == CHOOSE a \in R : \A b \in R : a[2] <= b[2]
                         IN  <<a>> \o Order(R \ {a})
    IN  Order(S)
FAbs(x) == The({<<Abs(a[1]), a[2]>> : a \in {x}})
\* Equity::variation: half the L1 distance of the two densities
Variation(x, y) ==
    The({FMul(Half, FSum(terms)) :
            terms \in {[i \in 1 .. Len(keys) |->
                          FAbs(FSub(DensityAt(x, keys[i]), DensityAt(y, keys[i])))] \o <<>> :
                      keys \in {KeySeq(DOMAIN x \cup DOMAIN y)}}})
\* Metric::lookup in a given metric
LookupIn(m, a, b) == IF a = b THEN Zero ELSE m[Pair(a, b)]
\* Sinkhorn cost of moving x onto y under the ground metric m, taken at the
\* coupling of strong regularisation, the product of the two densities
SinkhornCost(m, x, y) ==
    LET xs == KeySeq(DOMAIN x)
        ys == KeySeq(DOMAIN y)
    IN  FSum([i \in 1 .. Len(xs) |->
            FSum([j \in 1 .. Len(ys) |->
                FMul(FMul(DensityAt(x, xs[i]), DensityAt(y, ys[j])),
                     LookupIn(m, xs[i], ys[j]))])])
\* Metric::emd returns: the source has a key to peek at, it is not a Preflop
\* key, and every pair the Sinkhorn cost looks up is in the metric
EmdReturns(m, x, y) ==
    /\ DOMAIN x # {}
    /\ Peek(x)[1] \in {"Learned", "Percent"}
    /\ Peek(x)[1] = "Learned" =>
          \A a \in DOMAIN x, b \in DOMAIN y : a = b \/ Pair(a, b) \in DOMAIN m
\* Metric::emd
emd(m, x, y) ==
    The({IF Peek(x)[1] = "Percent" THEN Variation(a, b) ELSE SinkhornCost(m, a, b) :
            a \in {x}, b \in {y}})

\* ------------------------------------------------------------------ PGCOPY
\* b"PGCOPY\n\xFF\r\n\0", flags and header extension
Magic == <<80, 71, 67, 79, 80, 89, 10, 255, 13, 10, 0>>
Header == Magic \o <<0, 0, 0, 0>> \o <<0, 0, 0, 0>>
Trailer == <<255, 255>>
\* big-endian integers
U16(n) == <<(n \div 256) % 256, n % 256>>
U32(n) == <<(n \div 16777216) % 256, (n \div 65536) % 256, (n \div 256) % 256, n % 256>>
I64(n) == <<0, 0, 0, 0>> \o U32(n)
AsU16(b, at) == b[at] * 256 + b[at + 1]
AsI64(b, at) == ((b[at + 4] % 128) * 256 + b[at + 5]) * 65536 + b[at + 6] * 256 + b[at + 7]
\* i64::from(Abstraction) and Abstraction::from(i64): variant and index
VariantCode == [v \in {"Learned", "Percent", "Preflop"} |->
                   IF v = "Learned" THEN 1 ELSE IF v = "Percent" THEN 2 ELSE 3]
AbsCode(a) == VariantCode[a[1]] * 16 + a[2]
AbsFrom(n) ==
    <<CHOOSE v \in DOMAIN VariantCode : VariantCode[v] = ((n \div 16) % 4), n % 16>>
\* i64::from(Pair) and Pair::from(i64): the two codes, the lower one first
PairCode(pair) ==
    LET lo == CHOOSE a \in pair : \A b \in pair : AbsCode(a) <= AbsCode(b)
        hi == CHOOSE a \in pair : \A b \in pair : AbsCode(b) <= AbsCode(a)
    IN  AbsCode(lo) * 256 + AbsCode(hi)
PairFrom(n) == Pair(AbsFrom(n \div 256), AbsFrom(n % 256))
\* write_f32::<BE>: sign, biased exponent and fraction of the f32
F32Exp(x) == IF x[1] = 0 \/ Abs(x[1]) < Hidden THEN 0 ELSE x[2] + (PrecBits - 1) + 127
F32Frac(x) ==
    IF Abs(x[1]) < Hidden THEN Abs(x[1]) * 2 ^ (24 - PrecBits)
    ELSE (Abs(x[1]) - Hidden) * 2 ^ (24 - PrecBits)
F32(x) ==
    <<(IF x[1] < 0 THEN 128 ELSE 0) + F32Exp(x) \div 2,
      (F32Exp(x) % 2) * 128 + F32Frac(x) \div 65536,
      (F32Frac(x) \div 256) % 256,
      F32Frac(x) % 256>>
\* read_f32::<BE>; the fraction keeps the PrecBits - 1 bits of the model
AsF32(b, at) ==
    LET sign == IF b[at] >= 128 THEN 0 - 1 ELSE 1
        exp  == (b[at] % 128) * 2 + b[at + 1] \div 128
        frac == ((b[at + 1] % 128) * 65536 + b[at + 2] * 256 + b[at + 3])
                    \div 2 ^ (24 - PrecBits)
    IN  IF exp = 0 THEN <<sign * frac, QExp>>
        ELSE <<sign * (Hidden + frac), exp - 127 - (PrecBits - 1)>>
Concat(rows) ==
    LET RECURSIVE Join(_)
        Join(i) == IF i > Len(rows) THEN <<>> ELSE rows[i] \o Join(i + 1)
    IN  Join(1)

\* the artifact files of a street
LookupFile(street) == <<street, ".pgcopy">>
DecompFile(street) == <<street, ".transitions.pgcopy">>
MetricFile(street) == <<street, ".metric.pgcopy">>
Exists(file) == file \in DOMAIN disk

\* Metric::street: the street is told from the number of entries; "" when
\* the count is none of the expected ones (panic!)
MetricStreet(m) ==
    LET n == Cardinality(DOMAIN m)
    IN  IF n = 0 THEN "Rive"
        ELSE IF n = StreetK["Turn"] THEN "Turn"
        ELSE IF n = StreetK["Flop"] THEN "Flop"
        ELSE IF n = StreetK["Pref"] THEN "Pref"
        ELSE ""
\* the bytes Metric::save writes: header, one row per entry in key order,
\* trailer
MetricRow(pair, dist) == U16(2) \o U32(8) \o I64(PairCode(pair)) \o U32(4) \o F32(dist)
MetricBytes(m) ==
    LET codes == Sorted({PairCode(pair) : pair \in DOMAIN m})
        At(i) == CHOOSE pair \in DOMAIN m : PairCode(pair) = codes[i]
    IN  Header \o Concat([i \in 1 .. Len(codes) |-> MetricRow(At(i), m[At(i)])]) \o Trailer
\* the loop of Metric::load over the bytes from offset `seek`, rows of `size`
\* bytes after the field count: [ok, rows], rows the offsets of the rows
\* read; ok is FALSE when a read inside a row meets the end of the file
RowsRead(b, seek, size) ==
    LET RECURSIVE Read(_, _)
        Read(at, rows) ==
            IF at + 1 > Len(b) THEN [ok |-> TRUE, rows |-> rows]
            ELSE IF AsU16(b, at) # 2 THEN [ok |-> TRUE, rows |-> rows]
            ELSE IF at + 1 + size > Len(b) THEN [ok |-> FALSE, rows |-> rows]
            ELSE Read(at + 2 + size, Append(rows, at))
    IN  Read(seek + 1, <<>>)
\* Metric::load: seek to 19, rows of 4 + 8 + 4 + 4 bytes; a later row with the
\* key of an earlier one replaces it
MetricInserted(b, rows) ==
    LET RECURSIVE Insert(_)
        Insert(i) ==
            IF i = 0 THEN <<>>
            ELSE (PairFrom(AsI64(b, rows[i] + 6)) :> AsF32(b, rows[i] + 18)) @@ Insert(i - 1)
    IN  Insert(Len(rows))
MetricLoaded(b) ==
    LET read == RowsRead(b, 19, 20)
    IN  [ok |-> read.ok, map |-> IF read.ok THEN MetricInserted(b, read.rows) ELSE <<>>]

\* ------------------------------------------------------- Layer operations
\* Layer::abstracting: the label of centroid i (counted from 0) of a street
StreetBase == [s \in Streets |->
                 IF s = "Turn" THEN 0 ELSE IF s = "Flop" THEN 4
                 ELSE IF s = "Pref" THEN 8 ELSE 12]
abstracting(street, i) == Learned(StreetBase[street] + i)

FMin(x, y) == The({IF LtV(b, a) THEN b ELSE a : a \in {x}, b \in {y}})

\* Layer::neighboring returns: there is a centroid and every emd returns
NeighborOk(L, x) ==
    /\ Len(L.kmeans) > 0
    /\ \A k \in 1 .. Len(L.kmeans) : EmdReturns(L.metric, x, L.kmeans[k])
\* the nearest centroid with the last of the nearest kept, as max_by would
neighboring_last(L, x) ==
    LET d == [k \in 1 .. Len(L.kmeans) |-> emd(L.metric, x, L.kmeans[k])] \o <<>>
    IN  CHOOSE k \in 1 .. Len(d) :
            /\ \A j \in 1 .. Len(d) : FLe(d[k], d[j])
            /\ \A j \in k + 1 .. Len(d) : FLt(d[k], d[j])
\* Layer::neighboring: min_by keeps the first of the nearest centroids
neighboring(L, x) ==
    LET d == [k \in 1 .. Len(L.kmeans) |-> emd(L.metric, x, L.kmeans[k])] \o <<>>
    IN  CHOOSE k \in 1 .. Len(d) :
            /\ \A j \in 1 .. Len(d) : FLe(d[k], d[j])
            /\ \A j \in 1 .. k - 1 : FLt(d[k], d[j])

\* Layer::next returns: neighboring returns for every point
NextOk(L) == \A i \in 1 .. Len(L.points) : NeighborOk(L, L.points[i])
\* the fold of Layer::next over the collected neighbors with the point in the
\* place of the histogram, nothing absorbed
Replaced(L, mean) ==
    LET RECURSIVE Fold(_, _)
        Fold(i, kmeans) ==
            IF i > Len(L.points) THEN kmeans
            ELSE Fold(i + 1, [kmeans EXCEPT ![mean[i]] = L.points[i]])
    IN  Fold(1, [k \in 1 .. StreetK[L.street] |-> NoHistogram])
\* the fold of Layer::next: from K empty histograms, every point, in order,
\* is absorbed into the histogram of the neighbor collected for it
Absorbed(L, mean) ==
    LET RECURSIVE Fold(_, _)
        Fold(i, kmeans) ==
            IF i > Len(L.points) THEN kmeans
            ELSE Fold(i + 1, [kmeans EXCEPT ![mean[i]] = Absorb(@, L.points[i])])
    IN  Fold(1, [k \in 1 .. StreetK[L.street] |-> NoHistogram])
\* Layer::next: the neighbors of the points are collected in the order of the
\* points, then folded
LayerNext(L) ==
    Absorbed(L, [i \in 1 .. Len(L.points) |-> neighboring(L, L.points[i])] \o <<>>)

\* the potentials as the squared distances to the last point pushed alone,
\* the minimum with the earlier potentials left out
PotentialsOfLast(L, potentials, i) ==
    [j \in 1 .. Len(L.points) |->
        LET p == emd(L.metric, L.points[i], L.points[j])
        IN  FMul(p, p)] \o <<>>
\* the potentials of Layer::init after point i has been pushed
Potentials(L, potentials, i) ==
    [j \in 1 .. Len(L.points) |->
        LET p == emd(L.metric, L.points[i], L.points[j])
        IN  FMin(FMul(p, p), IF j = i THEN Zero ELSE potentials[j])] \o <<>>
\* the indices WeightedIndex can sample: those of positive weight
Samples(potentials) == {i \in 1 .. Len(potentials) : FLt(Zero, potentials[i])}
\* Layer::init for k centroids: every run of the loop under
\* rand::thread_rng(), as the indices pushed; ok is FALSE when
\* WeightedIndex::new or emd fails
InitRunsOf(L, k) ==
    LET RECURSIVE Runs(_, _)
        Runs(run, potentials) ==
            IF Len(run) >= k THEN {[ok |-> TRUE, run |-> run]}
            ELSE IF Samples(potentials) = {} THEN {[ok |-> FALSE, run |-> run]}
            ELSE UNION {
                IF \A j \in 1 .. Len(L.points) :
                        EmdReturns(L.metric, L.points[i], L.points[j])
                THEN UNION {Runs(Append(run, i), p) : p \in {Potentials(L, potentials, i)}}
                ELSE {[ok |-> FALSE, run |-> Append(run, i)]} :
                i \in Samples(potentials)}
    IN  Runs(<<>>, [j \in 1 .. Len(L.points) |-> One])
\* Layer::init with the k of the street
InitRuns(L) == InitRunsOf(L, StreetK[L.street])
\* Layer::cluster after init: t rounds of next; [ok, kmeans]
Clustered(L, run) ==
    LET RECURSIVE Rounds(_, _)
        Rounds(t, kmeans) ==
            IF t = 0 THEN [ok |-> TRUE, kmeans |-> kmeans]
            ELSE IF ~NextOk([L EXCEPT !.kmeans = kmeans])
                 THEN [ok |-> FALSE, kmeans |-> kmeans]
            ELSE The({Rounds(t - 1, means) :
                        means \in {LayerNext([L EXCEPT !.kmeans = kmeans])}})
    IN  Rounds(StreetT[L.street], [k \in 1 .. Len(run) |-> L.points[run[k]]] \o <<>>)

\* Lookup::load(street.next()).projections(): the histograms of the street's
\* observations over two abstractions A, B of the next street, one per
\* isomorphism. The lists hold two points more than centroids: six different
\* densities, two pairs of points of one density, and one point four times.
\* In the first list f is as far from b as from g, and gathering f with g
\* and e with b draws g to h and f to b in the round after
Histograms(street) ==
    LET A == IF street = "Turn" THEN Percent(0) ELSE abstracting(StreetNext[street], 0)
        B == IF street = "Turn" THEN Percent(1) ELSE abstracting(StreetNext[street], 1)
    IN  [a |-> (A :> 1), b |-> (B :> 1), c |-> (A :> 1) @@ (B :> 1),
         d |-> (A :> 3) @@ (B :> 1), e |-> (A :> 1) @@ (B :> 3), aa |-> (A :> 2),
         f |-> (A :> 3) @@ (B :> 5), g |-> (A :> 6) @@ (B :> 2), h |-> (A :> 7) @@ (B :> 1)]
Projections(street) ==
    IF street = "Rive" THEN {<<>>}
    ELSE LET h == Histograms(street)
         IN  IF street = "Pref"
             THEN {<<h.a, h.b, h.c, h.d, h.e, h.f>>}
             ELSE {<<h.a, h.b, h.f, h.g, h.h, h.e>>, <<h.a, h.aa, h.b, h.c, h.d, h.d>>,
                   <<h.a, h.b, h.c, h.c, h.c, h.c>>}

\* Layer::cluster: every outcome of init followed by the rounds of next, as
\* [ok, run, kmeans]
ClusterRuns(L) ==
    {The({[ok |-> last.ok, run |-> init.run, kmeans |-> last.kmeans] :
            last \in {IF init.ok THEN Clustered(L, init.run)
                      ELSE [ok |-> FALSE, kmeans |-> <<>>]}}) :
        init \in InitRuns(L)}
\* the outcomes for the layers of the turn, which loads the empty metric of
\* the river, computed once
ClusterTable ==
    [L \in {[street |-> "Turn", metric |-> <<>>, points |-> points, kmeans |-> <<>>] :
                points \in Projections("Turn")} |-> ClusterRuns(L)]
cluster(L) == IF L \in DOMAIN ClusterTable THEN ClusterTable[L] ELSE ClusterRuns(L)

\* Layer::metric returns: emd returns on every ordered pair of centroids
LayerMetricOk(L) ==
    \A i \in 1 .. Len(L.kmeans), j \in 1 .. Len(L.kmeans) :
        i # j => EmdReturns(L.metric, L.kmeans[i], L.kmeans[j])
\* the map of Layer::metric with the test i >= j: a centroid is paired with itself
LayerDistancesWithSelf(L) ==
    LET K == Len(L.kmeans)
        Index(i, j) == Pair(abstracting(L.street, i - 1), abstracting(L.street, j - 1))
        Upper == {ij \in (1 .. K) \X (1 .. K) : ij[1] >= ij[2]}
    IN  [index \in {Index(ij[1], ij[2]) : ij \in Upper} |->
            LET ij == CHOOSE ij \in Upper :
                          /\ Index(ij[1], ij[2]) = index
                          /\ \A kl \in Upper : Index(kl[1], kl[2]) = index =>
                                 (kl[1] < ij[1] \/ (kl[1] = ij[1] /\ kl[2] <= ij[2]))
                x == L.kmeans[ij[1]]
                y == L.kmeans[ij[2]]
            IN  FDiv(FAdd(emd(L.metric, x, y), emd(L.metric, y, x)), FromInt(2))]
\* the map Layer::metric builds before it is normalised
LayerDistances(L) ==
    LET K == Len(L.kmeans)
        Index(i, j) == Pair(abstracting(L.street, i - 1), abstracting(L.street, j - 1))
        Upper == {ij \in (1 .. K) \X (1 .. K) : ij[1] > ij[2]}
    IN  [index \in {Index(ij[1], ij[2]) : ij \in Upper} |->
            LET ij == CHOOSE ij \in Upper :
                          /\ Index(ij[1], ij[2]) = index
                          /\ \A kl \in Upper : Index(kl[1], kl[2]) = index =>
                                 (kl[1] < ij[1] \/ (kl[1] = ij[1] /\ kl[2] <= ij[2]))
                x == L.kmeans[ij[1]]
                y == L.kmeans[ij[2]]
            IN  FDiv(FAdd(emd(L.metric, x, y), emd(L.metric, y, x)), FromInt(2))]
\* Layer::metric
LayerMetric(L) == From(LayerDistances(L))

\* Lookup::make(street) of the river and of the preflop
LookupMade(street) ==
    [iso \in 1 .. StreetN[street] |->
        IF street = "Rive" THEN Percent(iso % 2) ELSE Preflop(iso)]
\* Layer::lookup returns
LayerLookupOk(L) == L.street \in {"Pref", "Rive"} \/ NextOk(L)
\* Layer::lookup pairing point i with observation i + 1
LayerLookupShifted(L) ==
    IF L.street \in {"Pref", "Rive"} THEN LookupMade(L.street)
    ELSE LET isos == Isomorphisms(L.street)
             n == IF Len(isos) < Len(L.points) THEN Len(isos) ELSE Len(L.points)
         IN  [iso \in {isos[i] : i \in 1 .. n} |->
                LET i == CHOOSE i \in 1 .. n : isos[i] = iso
                IN  abstracting(L.street, neighboring(L, L.points[(i % n) + 1]) - 1)]
\* Layer::lookup: the neighbors of the points, zipped with the isomorphisms
LayerLookup(L) ==
    IF L.street \in {"Pref", "Rive"} THEN LookupMade(L.street)
    ELSE LET isos == Isomorphisms(L.street)
             n == IF Len(isos) < Len(L.points) THEN Len(isos) ELSE Len(L.points)
         IN  [iso \in {isos[i] : i \in 1 .. n} |->
                LET i == CHOOSE i \in 1 .. n : isos[i] = iso
                IN  abstracting(L.street, neighboring(L, L.points[i]) - 1)]
\* Layer::decomp
LayerDecomp(L) ==
    [a \in {abstracting(L.street, k - 1) : k \in 1 .. Len(L.kmeans)} |->
        L.kmeans[CHOOSE k \in 1 .. Len(L.kmeans) : abstracting(L.street, k - 1) = a]]

\* the rows of a lookup table: observation and abstraction as i64
LookupRow(obs, abs) == U16(2) \o U32(8) \o I64(obs) \o U32(8) \o I64(AbsCode(abs))
LookupBytes(table) ==
    LET keys == Sorted(DOMAIN table)
    IN  Header \o Concat([i \in 1 .. Len(keys) |-> LookupRow(keys[i], table[keys[i]])])
               \o Trailer
\* Decomp::save
DecompBytes(decomp) == Header \o Trailer

\* Layer::load, [ok, layer]: the river starts empty, another street reads the
\* lookup and the metric of the next street
Loaded(street, points) ==
    IF street = "Rive"
    THEN [ok |-> TRUE, layer |-> [NoLayer EXCEPT !.street = street]]
    ELSE IF ~Exists(LookupFile(StreetNext[street])) \/ ~Exists(MetricFile(StreetNext[street]))
    THEN [ok |-> FALSE, layer |-> NoLayer]
    ELSE LET m == MetricLoaded(disk[MetricFile(StreetNext[street])])
         IN  [ok |-> m.ok,
              layer |-> [street |-> street, metric |-> m.map,
                         points |-> points, kmeans |-> <<>>]]

\* Layer::make(street): load, then cluster (init and t rounds of next); the
\* points are read from the files of the next street, so that a street made
\* again, these files unchanged, is made of the same points
Layer_make(street, points) ==
    /\ ~halted
    /\ layer.street = street => points = layer.points
    /\ \E L \in {Loaded(street, points)} :
         IF ~L.ok
         THEN /\ halted' = TRUE
              /\ ret' = [NoCall EXCEPT !.op = "make", !.ok = FALSE, !.street = street]
              /\ UNCHANGED layer
         ELSE \E last \in cluster(L.layer) :
                /\ halted' = ~last.ok
                /\ layer' = IF last.ok THEN [L.layer EXCEPT !.kmeans = last.kmeans]
                            ELSE layer
                /\ ret' = [NoCall EXCEPT !.op = "make", !.ok = last.ok, !.street = street,
                              !.run = last.run, !.vec = L.layer.points,
                              !.out = L.layer.metric]
    /\ UNCHANGED <<iterations, strategies, updates, metric, disk>>

\* Layer::metric on the layer in memory
Layer_metric ==
    /\ ~halted /\ layer # NoLayer
    /\ halted' = ~LayerMetricOk(layer)
    /\ ret' = [NoCall EXCEPT !.op = "metric", !.ok = LayerMetricOk(layer),
                  !.street = layer.street,
                  !.out = IF LayerMetricOk(layer) THEN LayerMetric(layer) ELSE <<>>]
    /\ UNCHANGED <<iterations, strategies, updates, metric, layer, disk>>

\* Layer::lookup on the layer in memory
Layer_lookup ==
    /\ ~halted /\ layer # NoLayer
    /\ halted' = ~LayerLookupOk(layer)
    /\ ret' = [NoCall EXCEPT !.op = "lookup", !.ok = LayerLookupOk(layer),
                  !.street = layer.street,
                  !.out = IF LayerLookupOk(layer) THEN LayerLookup(layer) ELSE <<>>]
    /\ UNCHANGED <<iterations, strategies, updates, metric, layer, disk>>

\* the files after Metric::save of m, Lookup::save and Decomp::save
MetricSaved(m, files) == (MetricFile(MetricStreet(m)) :> MetricBytes(m)) @@ files
LookupSaved(L, files) == (LookupFile(L.street) :> LookupBytes(LayerLookup(L))) @@ files
DecompSaved(L, files) == (DecompFile(L.street) :> DecompBytes(LayerDecomp(L))) @@ files
\* Layer::save: self.metric().save(); self.lookup().save(); self.decomp().save();
\* a step that panics leaves the files of the steps before it
Layer_save ==
    /\ ~halted /\ layer # NoLayer
    /\ \E m \in {IF LayerMetricOk(layer) THEN LayerMetric(layer) ELSE <<>>} :
         \E saved \in {LayerMetricOk(layer) /\ MetricStreet(m) # ""} :
         \E done \in {saved /\ LayerLookupOk(layer)} :
            /\ halted' = ~done
            /\ disk' = IF done THEN DecompSaved(layer, LookupSaved(layer, MetricSaved(m, disk)))
                       ELSE IF saved THEN MetricSaved(m, disk)
                       ELSE disk
            /\ ret' = [NoCall EXCEPT !.op = "save", !.ok = done, !.street = layer.street,
                          !.out = m]
    /\ UNCHANGED <<iterations, strategies, updates, metric, layer>>

\* Layer::done(street)
Done(street) ==
    Exists(LookupFile(street)) /\ Exists(DecompFile(street)) /\ Exists(MetricFile(street))
Layer_done(street) ==
    /\ ~halted
    /\ ret' = [NoCall EXCEPT !.op = "done", !.street = street, !.seen = Done(street)]
    /\ UNCHANGED <<iterations, strategies, halted, updates, metric, layer, disk>>

NextLayer ==
    \/ \E street \in Streets : \E points \in Projections(street) : Layer_make(street, points)
    \/ Layer_metric
    \/ Layer_lookup
    \/ Layer_save
    \/ \E street \in Streets : Layer_done(street)

SpecLayer == Init /\ [][NextLayer]_vars

\* ------------------------------- Layer::cluster, one rayon task at a time
\* Layer::init of the turn layers, computed once
InitTable == [L \in DOMAIN ClusterTable |-> InitRuns(L)]
\* the runs of Layer::init whose rounds are followed task by task: those
\* where the generator draws the indices 1 and 4 first
FirstDraws == <<1, 4>>
init(L) ==
    {first \in (IF L \in DOMAIN InitTable THEN InitTable[L] ELSE InitRuns(L)) :
        Len(first.run) >= Len(FirstDraws) /\ SubSeq(first.run, 1, Len(FirstDraws)) = FirstDraws}
\* no neighbor has been collected
Pending(L) == [i \in 1 .. Len(L.points) |-> 0]

\* Layer::make(street) of a clustered street up to the first round: load,
\* init, swap. The call in flight is the frame ret: the indices pushed, the
\* rounds done and the neighbors collected so far, 0 for a point whose task
\* has not run; layer is self
Cluster_init(street, points) ==
    /\ ~halted /\ ret.op # "next"
    /\ StreetT[street] > 0
    /\ layer.street = street => points = layer.points
    /\ \E L \in {Loaded(street, points)} :
         IF ~L.ok
         THEN /\ halted' = TRUE
              /\ ret' = [NoCall EXCEPT !.op = "make", !.ok = FALSE, !.street = street]
              /\ UNCHANGED layer
         ELSE \E first \in init(L.layer) :
                /\ halted' = ~first.ok
                /\ layer' = IF first.ok
                            THEN [L.layer EXCEPT !.kmeans =
                                    [k \in 1 .. Len(first.run) |-> points[first.run[k]]] \o <<>>]
                            ELSE layer
                /\ ret' = IF first.ok
                          THEN [NoCall EXCEPT !.op = "next", !.street = street,
                                   !.run = first.run, !.n = 0, !.vec = Pending(L.layer)]
                          ELSE [NoCall EXCEPT !.op = "make", !.ok = FALSE, !.street = street,
                                   !.run = first.run, !.vec = points,
                                   !.out = L.layer.metric]
    /\ UNCHANGED <<iterations, strategies, updates, metric, disk>>

\* one task of points().par_iter().map(|h| (h, self.neighboring(h))): the
\* tasks run in any order and each writes the place of its own point
Cluster_neighbor(i) ==
    /\ ~halted /\ ret.op = "next"
    /\ i \in 1 .. Len(layer.points) /\ ret.vec[i] = 0
    /\ IF NeighborOk(layer, layer.points[i])
       THEN /\ ret' = [ret EXCEPT !.vec[i] = neighboring(layer, layer.points[i])]
            /\ UNCHANGED halted
       ELSE /\ ret' = [ret EXCEPT !.ok = FALSE]
            /\ halted' = TRUE
    /\ UNCHANGED <<iterations, strategies, updates, metric, layer, disk>>

\* collect, into_iter().fold, and the swap of Layer::cluster, once every task
\* has run; after the last round make returns
Cluster_fold ==
    /\ ~halted /\ ret.op = "next"
    /\ \A i \in 1 .. Len(layer.points) : ret.vec[i] # 0
    /\ layer' = [layer EXCEPT !.kmeans = Absorbed(layer, ret.vec)]
    /\ ret' = IF ret.n + 1 < StreetT[layer.street]
              THEN [ret EXCEPT !.n = @ + 1, !.vec = Pending(layer)]
              ELSE [NoCall EXCEPT !.op = "make", !.street = layer.street,
                       !.run = ret.run, !.n = ret.n + 1, !.vec = layer.points,
                       !.out = layer.metric]
    /\ UNCHANGED <<iterations, strategies, halted, updates, metric, disk>>

NextCluster ==
    \/ ret.op # "next" /\ \E points \in Projections("Rive") : Layer_make("Rive", points)
    \/ \E street \in Streets : \E points \in Projections(street) : Cluster_init(street, points)
    \/ \E i \in 1 .. StreetN["Turn"] : Cluster_neighbor(i)
    \/ Cluster_fold
    \/ ret.op # "next" /\ Layer_metric
    \/ ret.op # "next" /\ Layer_lookup
    \/ ret.op # "next" /\ Layer_save

SpecCluster == Init /\ [][NextCluster]_vars

\* ------------------------------------------- Layer::init on any point list
\* lists of two to four turn histograms, with and without points of the same
\* density, for an init of 1 to N centroids
PointLists ==
    LET h == Histograms("Turn")
    IN  {<<h.a, h.b>>, <<h.a, h.a>>, <<h.a, h.b, h.c>>, <<h.a, h.aa, h.b>>,
         <<h.a, h.b, h.c, h.d>>, <<h.a, h.b, h.c, h.c>>}
\* Layer::init of a turn layer over the points, for k centroids, and the
\* Layer::decomp of the centroids it returns
Layer_init(points, k) ==
    /\ ~halted
    /\ \E L \in {[street |-> "Turn", metric |-> <<>>, points |-> points, kmeans |-> <<>>]} :
       \E first \in InitRunsOf(L, k) :
          /\ halted' = ~first.ok
          /\ ret' = [NoCall EXCEPT !.op = "init", !.ok = first.ok, !.street = L.street,
                        !.run = first.run, !.vec = points, !.n = k,
                        !.out = IF first.ok
                                THEN LayerDecomp([L EXCEPT !.kmeans =
                                        [j \in 1 .. Len(first.run) |-> points[first.run[j]]]
                                            \o <<>>])
                                ELSE <<>>]
    /\ UNCHANGED <<iterations, strategies, updates, metric, layer, disk>>

NextInit == \E points \in PointLists : \E k \in 1 .. Len(points) : Layer_init(points, k)

SpecInit == Init /\ [][NextInit]_vars

\* ------------------------------------------------- artifacts on disk
\* Hierarchical::save: header, one row per (observation, abstraction) in key
\* order, trailer; an observation is written as its i64
AbstractorRow(obs, abs) == U16(2) \o U32(8) \o I64(obs) \o U32(8) \o I64(AbsCode(abs))
AbstractorBytes(table) ==
    LET keys == Sorted(DOMAIN table)
    IN  Header \o Concat([i \in 1 .. Len(keys) |-> AbstractorRow(keys[i], table[keys[i]])])
               \o Trailer
\* Hierarchical::load: the rows inserted, a later row with the key of an
\* earlier one replacing it
AbstractorInserted(b, rows) ==
    LET RECURSIVE Insert(_)
        Insert(i) ==
            IF i = 0 THEN <<>>
            ELSE (AsI64(b, rows[i] + 6) :> AbsFrom(AsI64(b, rows[i] + 18))) @@ Insert(i - 1)
    IN  Insert(Len(rows))
\* Hierarchical::load: seek to 23, rows of 4 + 8 + 4 + 8 bytes
AbstractorLoaded(b) ==
    LET read == RowsRead(b, 23, 24)
    IN  [ok |-> read.ok, map |-> IF read.ok THEN AbstractorInserted(b, read.rows) ELSE <<>>]

\* the lookup tables saved: of no observation and of two
LookupTables == {<<>>, (1 :> Learned(0)) @@ (2 :> Percent(1))}
\* the streets Hierarchical::upload saves
LearnedStreets == {"Turn", "Flop"}
\* the metrics saved: the river's empty metric, the metrics of two clustered
\* turn layers, and a table of as many entries as the turn has centroids
EmittedMetrics ==
    {<<>>} \cup
    UNION {{LayerMetric([L EXCEPT !.kmeans = last.kmeans]) :
                last \in {last \in ClusterTable[L] :
                             last.ok /\ last.run \in {<<1, 2, 3, 4>>, <<5, 3, 2, 1>>}}} :
            L \in DOMAIN ClusterTable}
Metrics ==
    EmittedMetrics \cup
    {(P1 :> FDiv(One, FromInt(4))) @@ (P2 :> Half) @@ (P3 :> One)
        @@ (Pair(Learned(1), Learned(3)) :> Zero)}

\* Hierarchical::save
Hierarchical_save(street, table) ==
    /\ ~halted
    /\ disk' = (LookupFile(street) :> AbstractorBytes(table)) @@ disk
    /\ ret' = [NoCall EXCEPT !.op = "save lookup", !.street = street, !.out = table]
    /\ UNCHANGED <<iterations, strategies, halted, updates, metric, layer>>

\* Hierarchical::load(street): File::open, then the rows
Hierarchical_load(street) ==
    /\ ~halted
    /\ \E read \in {IF Exists(LookupFile(street))
                    THEN AbstractorLoaded(disk[LookupFile(street)])
                    ELSE [ok |-> FALSE, map |-> <<>>]} :
         /\ halted' = ~read.ok
         /\ ret' = [NoCall EXCEPT !.op = "load lookup", !.ok = read.ok, !.street = street,
                       !.seen = Exists(LookupFile(street)),
                       !.vec = IF Exists(LookupFile(street)) THEN disk[LookupFile(street)]
                               ELSE <<>>,
                       !.out = read.map]
    /\ UNCHANGED <<iterations, strategies, updates, metric, layer, disk>>

\* Metric::save: self.street() panics before the file is created
Metric_save(m) ==
    /\ ~halted
    /\ halted' = (MetricStreet(m) = "")
    /\ disk' = IF MetricStreet(m) = "" THEN disk ELSE MetricSaved(m, disk)
    /\ ret' = [NoCall EXCEPT !.op = "save metric", !.ok = (MetricStreet(m) # ""),
                  !.street = MetricStreet(m), !.out = m]
    /\ UNCHANGED <<iterations, strategies, updates, metric, layer>>

\* Metric::load(street)
Metric_load(street) ==
    /\ ~halted
    /\ \E read \in {IF Exists(MetricFile(street))
                    THEN MetricLoaded(disk[MetricFile(street)])
                    ELSE [ok |-> FALSE, map |-> <<>>]} :
         /\ halted' = ~read.ok
         /\ ret' = [NoCall EXCEPT !.op = "load metric", !.ok = read.ok, !.street = street,
                       !.seen = Exists(MetricFile(street)),
                       !.vec = IF Exists(MetricFile(street)) THEN disk[MetricFile(street)]
                               ELSE <<>>,
                       !.out = read.map]
    /\ UNCHANGED <<iterations, strategies, updates, metric, layer, disk>>

\* the files as save writes them
Images ==
    {AbstractorBytes(table) : table \in LookupTables}
        \cup {MetricBytes(m) : m \in {m \in Metrics : MetricStreet(m) # ""}}
\* the bytes after the header of a file: 4 + 8 + 4 + 8 in a lookup row,
\* 4 + 8 + 4 + 4 in a metric row
RowSize(file) == IF file[2] = ".pgcopy" THEN 24 ELSE 20
\* the offsets of the framing of a file as save wrote it: the header, and
\* the field count and the two field lengths of every row
Framing(b, size) ==
    LET rows == RowsRead(b, 19, size).rows
    IN  (1 .. 19) \cup
        UNION {{rows[i] + d : d \in {0, 1, 2, 3, 4, 5, 14, 15, 16, 17}} : i \in 1 .. Len(rows)}
\* one byte of a file replaced by another value
Damaged(b, at) == [b EXCEPT ![at] = (@ + 1) % 256]
\* a file cut n bytes before its end
Cut(b, n) == SubSeq(b, 1, Len(b) - n)

\* the environment damages one byte of the framing of a file, every file
\* being as save wrote it
Corrupt(file, at) ==
    /\ \A f \in DOMAIN disk : disk[f] \in Images
    /\ file \in DOMAIN disk
    /\ at \in Framing(disk[file], RowSize(file))
    /\ disk' = [disk EXCEPT ![file] = Damaged(@, at)]
    /\ ret' = [NoCall EXCEPT !.op = "corrupt"]
    /\ UNCHANGED <<iterations, strategies, halted, updates, metric, layer>>

\* the environment cuts a file inside its last row
Truncate(file, n) ==
    /\ \A f \in DOMAIN disk : disk[f] \in Images
    /\ file \in DOMAIN disk
    /\ Len(disk[file]) > 21
    /\ n \in 3 .. (RowSize(file) + 3)
    /\ disk' = [disk EXCEPT ![file] = Cut(@, n)]
    /\ ret' = [NoCall EXCEPT !.op = "truncate"]
    /\ UNCHANGED <<iterations, strategies, halted, updates, metric, layer>>

Files == {LookupFile(street) : street \in LearnedStreets}
            \cup {MetricFile(street) : street \in Streets}

NextCopy ==
    \/ \E street \in LearnedStreets, table \in LookupTables : Hierarchical_save(street, table)
    \/ \E street \in LearnedStreets : Hierarchical_load(street)
    \/ \E m \in Metrics : Metric_save(m)
    \/ \E street \in Streets : Metric_load(street)
    \/ \E file \in Files, at \in 1 .. 128 : Corrupt(file, at)
    \/ \E file \in Files, n \in 3 .. 27 : Truncate(file, n)

SpecCopy == Init /\ [][NextCopy]_vars

\* ------------------------------------------------------------- properties
\* C1: witness(node) on a bucket the profile already holds changes nothing;
\* on an absent bucket whose node has n >= 1 edges it adds the bucket with
\* exactly those edges, each with policy 1/n, regret 0 and advice 0 (1/3 for
\* the three edges of node 3), and leaves every other bucket and the
\* iteration count as they were.
C1_WitnessIdempotent ==
    [][(ret'.op = "witness") =>
        (/\ iterations' = iterations
         /\ (ret'.bucket \in DOMAIN strategies) => (strategies' = strategies)
         /\ (ret'.bucket \notin DOMAIN strategies /\ Outgoing(ret'.node) # {}) =>
              /\ DOMAIN strategies' = DOMAIN strategies \cup {ret'.bucket}
              /\ \A c \in DOMAIN strategies : strategies'[c] = strategies[c]
              /\ DOMAIN strategies'[ret'.bucket] = Outgoing(ret'.node)
              /\ \A e \in Outgoing(ret'.node) :
                   /\ strategies'[ret'.bucket][e].regret = Zero
                   /\ strategies'[ret'.bucket][e].advice = Zero
                   /\ strategies'[ret'.bucket][e].policy =
                        FDiv(One, FromInt(Cardinality(Outgoing(ret'.node))))
              /\ (ret'.node = 3) =>
                   \A e \in {1, 2, 3} :
                       strategies'[ret'.bucket][e].policy = FDiv(One, FromInt(3)))]_vars

\* C1 witness: witness is called again on the three-edge bucket after training
\* has moved its policy away from uniform, and the policy is still the
\* trained one
C1_Witness ==
    /\ ret.op = "witness" /\ ret.seen /\ ret.bucket = "b2"
    /\ DOMAIN strategies["b2"] = {1, 2, 3}
    /\ \E e \in {1, 2, 3} : strategies["b2"][e].policy # FDiv(One, FromInt(3))

\* C7: iterations starts at 0, every next() adds one and returns the new
\* count, and no other operation changes it; so after n calls it is n. The
\* walker is player (iterations mod 2) and alternates on every next(), and
\* epochs() = floor(iterations / 2) grows by one exactly when the new count is
\* even, every second call.
C7_NextCounts ==
    /\ iterations = 0 /\ epochs = 0 /\ walker = "choice0"
    /\ [][(ret'.op = "next") =>
            (/\ iterations' = iterations + 1
             /\ ret'.n = iterations'
             /\ walker' # walker
             /\ walker' = (IF iterations' % 2 = 0 THEN "choice0" ELSE "choice1")
             /\ 2 * epochs' <= iterations' /\ iterations' <= 2 * epochs' + 1
             /\ epochs' = epochs + (IF iterations' % 2 = 0 THEN 1 ELSE 0))]_vars
    /\ [][(iterations' # iterations) =>
            (ret'.op = "next" /\ ret'.n = iterations + 1)]_vars

\* C7 witness: the fourth call of next() has returned 4, after updates
C7_Witness ==
    /\ ret.op = "next" /\ ret.n = 4 /\ iterations = 4
    /\ epochs = 2 /\ walker = "choice0" /\ updates > 0

\* C8: policy(node, edge) fails exactly for a chance node and for a node of
\* the walker; otherwise it returns the stored policy when the profile holds
\* (bucket, edge) and MIN_POSITIVE, which is not 0, when it does not; the
\* call, answered or failed, leaves the profile as it was.
C8_PolicyQuery ==
    /\ [](ret.op = "policy" =>
            /\ ret.ok <=> (PlayerOf[ret.node] # "chance" /\ PlayerOf[ret.node] # walker)
            /\ ret.ok /\ Visited(ret.bucket, ret.edge) =>
                    ret.val = strategies[ret.bucket][ret.edge].policy
            /\ ret.ok /\ ~Visited(ret.bucket, ret.edge) =>
                    ret.val = MIN_POSITIVE /\ ret.val # Zero /\ FLt(Zero, ret.val))
    /\ [][ret'.op = "policy" => strategies' = strategies /\ iterations' = iterations]_vars

\* C8 witness: the opponent's bucket is in the profile, the edge asked is not
C8_Witness ==
    /\ ret.op = "policy" /\ ret.ok /\ ret.val = MIN_POSITIVE
    /\ ret.bucket \in DOMAIN strategies /\ ret.edge \notin DOMAIN strategies[ret.bucket]
    /\ updates > 0

\* ---- exact bounds on a float in [0, 1], in units of 2^-(2 * PrecBits)
UnitExp == 2 * PrecBits
UnitsDown(x) ==
    IF x[2] + UnitExp >= 0 THEN x[1] * 2 ^ (x[2] + UnitExp)
    ELSE IF 0 - (x[2] + UnitExp) > PrecBits THEN 0
    ELSE x[1] \div 2 ^ (0 - (x[2] + UnitExp))
UnitsUp(x) ==
    IF x[2] + UnitExp >= 0 THEN x[1] * 2 ^ (x[2] + UnitExp)
    ELSE IF 0 - (x[2] + UnitExp) > PrecBits THEN (IF x[1] > 0 THEN 1 ELSE 0)
    ELSE (x[1] + 2 ^ (0 - (x[2] + UnitExp)) - 1) \div 2 ^ (0 - (x[2] + UnitExp))
RECURSIVE SumOver(_, _)
SumOver(U(_), f) ==
    IF DOMAIN f = {} THEN 0
    ELSE LET k == CHOOSE k \in DOMAIN f : TRUE
         IN  U(f[k]) + SumOver(U, [j \in DOMAIN f \ {k} |-> f[j]])
Policies(b) == [e \in DOMAIN strategies[b] |-> strategies[b][e].policy]
\* |sum of the policies of bucket b - 1| <= t * 2^-PrecBits, t half-units in
\* the last place of 1.0
SumsToOne(b, t) ==
    /\ SumOver(UnitsDown, Policies(b)) >= 2 ^ UnitExp - t * 2 ^ PrecBits
    /\ SumOver(UnitsUp, Policies(b)) <= 2 ^ UnitExp + t * 2 ^ PrecBits
BucketEdges(b) == Outgoing(CHOOSE n \in Nodes : BucketOf[n] = b)

\* C4: the vector update_regret is given by the trainer is, edge by edge,
\* max(running regret + instant regret, MIN_POSITIVE), it is what the profile
\* then stores, and so every stored regret is 0 (never updated) or at least
\* MIN_POSITIVE: never negative.
C4_RegretFloored ==
    /\ [](\A b \in DOMAIN strategies : \A e \in DOMAIN strategies[b] :
            /\ FLe(Zero, strategies[b][e].regret)
            /\ strategies[b][e].regret = Zero \/ FLe(MIN_POSITIVE, strategies[b][e].regret))
    /\ [][(ret'.op = "update_regret" /\ ret'.ok) =>
            (/\ DOMAIN ret'.vec = Outgoing(InfoNode(ret'.bucket))
             /\ \A e \in DOMAIN ret'.vec :
                  /\ ret'.vec[e] = FMax(FAdd(strategies[ret'.bucket][e].regret,
                                             instant_regret(ret'.bucket, e)), MIN_POSITIVE)
                  /\ strategies'[ret'.bucket][e].regret = ret'.vec[e])]_vars

\* C4 witness: an accrued regret below MIN_POSITIVE has been floored and
\* stored, next to one that was not
C4_Witness ==
    /\ ret.op = "update_regret" /\ ret.ok
    /\ \E e \in DOMAIN ret.vec, f \in DOMAIN ret.vec :
          /\ strategies[ret.bucket][e].regret = MIN_POSITIVE
          /\ FLt(One, strategies[ret.bucket][f].regret)

C6_RegretMatching ==
    (ret.op = "update_policy" /\ ret.ok) =>
        LET b == ret.bucket
            r == [e \in BucketEdges(b) |-> FMax(strategies[b][e].regret, MIN_POSITIVE)]
            sum == FSum([i \in 1 .. Cardinality(DOMAIN r) |-> r[Sorted(DOMAIN r)[i]]])
        IN  /\ DOMAIN ret.vec = BucketEdges(b)
            /\ FLt(Zero, sum)
            /\ \A e \in DOMAIN r : ret.vec[e] = FDiv(r[e], sum) /\ FLt(Zero, ret.vec[e])
            /\ \A e \in DOMAIN r, f \in DOMAIN r : FLe(r[e], r[f]) => FLe(ret.vec[e], ret.vec[f])
            /\ (\A e \in DOMAIN r : strategies[b][e].regret = Zero) =>
                    \A e \in DOMAIN r :
                        ret.vec[e] = FDiv(One, FromInt(Cardinality(DOMAIN r)))

\* C6 witness: the policy vector of the three-edge bucket "b2" was computed
\* while all its regrets were 0
C6_Witness ==
    /\ ret.op = "update_policy" /\ ret.ok /\ ret.bucket = "b2"
    /\ \A e \in {1, 2, 3} : strategies["b2"][e].regret = Zero
    /\ \A e \in {1, 2, 3} : ret.vec[e] = FDiv(One, FromInt(3))
    /\ epochs > 0

\* C2: a successful update_policy(bucket, vector) sets, for every edge e of
\* the vector, policy(e) to vector[e] and advice(e) to
\* (advice(e) * E + vector[e]) / (E + 1) with E = iterations / 2 at the call;
\* from advice 0 the policies 1, 0.5, 0, 1 at E = 0, 1, 2, 3 give the advice
\* 1, 0.75, 0.5, 0.625.
C2_Step(E, before, p, after) ==
    (/\ ret'.op = "update_policy" /\ ret'.ok /\ ret'.bucket = "b1"
     /\ iterations \div 2 = E /\ ret'.vec = (1 :> p)
     /\ strategies["b1"][1].advice = before)
    => strategies'["b1"][1].advice = after
C2_General ==
    (ret'.op = "update_policy" /\ ret'.ok) =>
        (/\ ret'.n = iterations \div 2
         /\ \A e \in DOMAIN ret'.vec :
              /\ strategies'[ret'.bucket][e].policy = ret'.vec[e]
              /\ strategies'[ret'.bucket][e].advice =
                    FDiv(FAdd(FMul(strategies[ret'.bucket][e].advice,
                                   FromInt(iterations \div 2)), ret'.vec[e]),
                         FromInt(iterations \div 2 + 1)))
C2_UpdatePolicy ==
    [][/\ C2_General
       /\ C2_Step(0, Zero, One, One)
       /\ C2_Step(1, One, Half, FDiv(FromInt(3), FromInt(4)))
       /\ C2_Step(2, FDiv(FromInt(3), FromInt(4)), Zero, Half)
       /\ C2_Step(3, Half, One, FDiv(FromInt(5), FromInt(8)))]_vars

\* C2 witness: the fourth update of the trace, at E = 3, has stored the
\* advice 0.625
C2_Witness ==
    /\ ret.op = "update_policy" /\ ret.ok /\ ret.bucket = "b1"
    /\ ret.n = 3 /\ ret.vec = (1 :> One)
    /\ strategies["b1"][1].advice = FDiv(FromInt(5), FromInt(8))
    /\ updates = 4

\* C3: a successful update_regret(bucket, vector) stores vector[e] as the
\* regret of every edge e of the vector, whatever the regret was; every
\* update_regret, successful or not, leaves every policy and advice, the regret
\* of every edge outside the vector and of every other bucket, the buckets and
\* edges of the profile, and iterations as they were.
C3_UpdateRegret ==
    [][(ret'.op = "update_regret") =>
        (/\ iterations' = iterations
         /\ DOMAIN strategies' = DOMAIN strategies
         /\ \A b \in DOMAIN strategies :
              /\ DOMAIN strategies'[b] = DOMAIN strategies[b]
              /\ \A e \in DOMAIN strategies[b] :
                   /\ strategies'[b][e].policy = strategies[b][e].policy
                   /\ strategies'[b][e].advice = strategies[b][e].advice
                   /\ (b # ret'.bucket \/ e \notin DOMAIN ret'.vec) =>
                        strategies'[b][e].regret = strategies[b][e].regret
                   /\ (ret'.ok /\ b = ret'.bucket /\ e \in DOMAIN ret'.vec) =>
                        strategies'[b][e].regret = ret'.vec[e])]_vars

\* C3 witness: the regret -1 of edge 1 of "b1" has been overwritten by 2
\* (edge 2 holds the 2 that only the vector storing -1 on edge 1 brings),
\* in a profile whose policies and advice have been updated
C3_Witness ==
    /\ ret.op = "update_regret" /\ ret.ok /\ ret.bucket = "b1"
    /\ ret.vec = (1 :> FromInt(2))
    /\ strategies["b1"][1].regret = FromInt(2)
    /\ strategies["b1"][2].regret = FromInt(2)
    /\ strategies["b1"][1].advice # Zero
    /\ "b2" \in DOMAIN strategies

\* the largest value of a non-empty map
GlobalMax(f) == CHOOSE v \in {f[k] : k \in DOMAIN f} : \A k \in DOMAIN f : FLe(f[k], v)
Example9 == (P1 :> FromInt(2)) @@ (P2 :> FromInt(4)) @@ (P3 :> FromInt(8))
Stored9 == (P1 :> FDiv(One, FromInt(4))) @@ (P2 :> Half) @@ (P3 :> One)

\* C9 as stated: Metric::from(raw) keeps the keys of raw, every stored value
\* lies in [0, 1], and when some raw distance is positive every value is
\* stored divided by the largest raw value, so that the largest stored value
\* is 1; {P1: 2, P2: 4, P3: 8} is stored as {P1: 0.25, P2: 0.5, P3: 1}.
C9_AsStated ==
    (ret.op = "from") =>
        /\ DOMAIN metric = DOMAIN ret.vec
        /\ \A k \in DOMAIN metric : FLe(Zero, metric[k]) /\ FLe(metric[k], One)
        /\ (\E k \in DOMAIN ret.vec : FLt(Zero, ret.vec[k])) =>
              /\ \A k \in DOMAIN metric : metric[k] = FDiv(ret.vec[k], GlobalMax(ret.vec))
              /\ \E k \in DOMAIN metric : metric[k] = One
        /\ ret.vec = Example9 => metric = Stored9

\* C9 amended: Metric::from(raw) keeps the keys of raw and stores every value
\* divided by the larger of MIN_POSITIVE and the largest raw value; every
\* stored value lies in [0, 1]; when some raw distance is at least
\* MIN_POSITIVE the divisor is the largest raw value and the largest stored
\* value is 1; {P1: 2, P2: 4, P3: 8} is stored as {P1: 0.25, P2: 0.5, P3: 1}.
C9_Normalized ==
    (ret.op = "from") =>
        /\ DOMAIN metric = DOMAIN ret.vec
        /\ \A k \in DOMAIN metric :
              /\ FLe(Zero, metric[k]) /\ FLe(metric[k], One)
              /\ metric[k] = FDiv(ret.vec[k], FMax(MIN_POSITIVE, GlobalMax(ret.vec)))
        /\ (\E k \in DOMAIN ret.vec : FLe(MIN_POSITIVE, ret.vec[k])) =>
              /\ \A k \in DOMAIN metric : metric[k] = FDiv(ret.vec[k], GlobalMax(ret.vec))
              /\ \E k \in DOMAIN metric : metric[k] = One
        /\ ret.vec = Example9 => metric = Stored9

\* C9 witness: the example map has been normalised
C9_Witness == ret.op = "from" /\ ret.vec = Example9 /\ metric = Stored9

\* C10 as stated: distance(a, a) is 0 for every abstraction a of every
\* variant; for distinct Learned a and b it is the stored distance of the
\* unordered pair, in either argument order, and it fails when the pair is
\* not in the table.
C10_AsStated ==
    (ret.op = "distance") =>
        /\ ret.x = ret.y => (ret.ok /\ ret.val = Zero)
        /\ (ret.x # ret.y /\ ret.x[1] = "Learned" /\ ret.y[1] = "Learned") =>
              IF Pair(ret.x, ret.y) \in DOMAIN metric
              THEN ret.ok /\ ret.val = metric[Pair(ret.x, ret.y)]
                          /\ ret.val = metric[Pair(ret.y, ret.x)]
              ELSE ~ret.ok

\* C10 amended: distance(a, a) is 0 for every Learned and every Percent
\* abstraction a, and fails for a Preflop abstraction, as does every query
\* that mixes variants; for distinct Learned a and b it is the stored distance
\* of the unordered pair, in either argument order, and it fails when the
\* pair is not in the table.
C10_Distance ==
    (ret.op = "distance") =>
        /\ (ret.x = ret.y /\ ret.x[1] \in {"Learned", "Percent"}) =>
              (ret.ok /\ ret.val = Zero)
        /\ (ret.x[1] = "Preflop" \/ ret.x[1] # ret.y[1]) => ~ret.ok
        /\ (ret.x # ret.y /\ ret.x[1] = "Learned" /\ ret.y[1] = "Learned") =>
              IF Pair(ret.x, ret.y) \in DOMAIN metric
              THEN ret.ok /\ ret.val = metric[Pair(ret.x, ret.y)]
                          /\ ret.val = metric[Pair(ret.y, ret.x)]
              ELSE ~ret.ok
        /\ ~ret.ok <=> halted

\* C10 witness: a stored pair is asked in the order opposite to its key and
\* its positive distance is returned
C10_Witness ==
    /\ ret.op = "distance" /\ ret.ok
    /\ ret.x = Learned(2) /\ ret.y = Learned(0)
    /\ ret.val = metric[P2] /\ FLt(Zero, ret.val) /\ FLt(ret.val, One)

\* C11: the metric a layer of K centroids emits has exactly K(K-1)/2
\* entries, one for every unordered pair of two different labels
\* Learned(street, i), Learned(street, j) of its centroids, none for a pair of
\* a label with itself, and every stored distance lies in [0, 1].
C11_MetricPairs ==
    (ret.op = "metric" /\ ret.ok) =>
        LET K == Len(layer.kmeans)
            label == [k \in 1 .. K |-> abstracting(layer.street, k - 1)]
        IN  /\ Cardinality(DOMAIN ret.out) = (K * (K - 1)) \div 2
            /\ DOMAIN ret.out = {Pair(label[ij[1]], label[ij[2]]) :
                                    ij \in {ij \in (1 .. K) \X (1 .. K) : ij[1] # ij[2]}}
            /\ \A k \in 1 .. K : Pair(label[k], label[k]) \notin DOMAIN ret.out
            /\ \A index \in DOMAIN ret.out :
                  FLe(Zero, ret.out[index]) /\ FLe(ret.out[index], One)
C11_Witness ==
    /\ ret.op = "metric" /\ ret.ok /\ layer.street = "Turn"
    /\ Len(layer.kmeans) = StreetK["Turn"] /\ Cardinality(DOMAIN ret.out) = 6
    /\ \E index \in DOMAIN ret.out : ret.out[index] = One
    /\ \E index \in DOMAIN ret.out : FLt(Zero, ret.out[index]) /\ FLt(ret.out[index], One)

\* C12: the lookup a flop or turn layer emits is total over the street's
\* enumeration of observations, each observation being a key exactly once,
\* and the i-th observation is mapped to the label Learned(street, k) of a
\* centroid k that no other centroid is nearer to the i-th point.
C12_LookupNearest ==
    (ret.op = "lookup" /\ ret.ok /\ layer.street \in {"Flop", "Turn"}) =>
        LET isos == Isomorphisms(layer.street)
        IN  /\ Len(layer.points) = Len(isos)
            /\ DOMAIN ret.out = {isos[i] : i \in 1 .. Len(isos)}
            /\ Cardinality(DOMAIN ret.out) = StreetN[layer.street]
            /\ \A i \in 1 .. Len(isos) :
                  \E k \in 1 .. Len(layer.kmeans) :
                      /\ ret.out[isos[i]] = abstracting(layer.street, k - 1)
                      /\ \A j \in 1 .. Len(layer.kmeans) :
                            FLe(emd(layer.metric, layer.points[i], layer.kmeans[k]),
                                emd(layer.metric, layer.points[i], layer.kmeans[j]))
C12_Witness ==
    /\ ret.op = "lookup" /\ ret.ok /\ layer.street = "Turn"
    /\ Cardinality(DOMAIN ret.out) = 6
    /\ \E i \in 1 .. 6, j \in 1 .. 6 :
          /\ i # j /\ ret.out[i] = ret.out[j]
          /\ layer.points[i] # layer.points[j]
          /\ \A k \in 1 .. Len(layer.kmeans) :
                FLt(Zero, emd(layer.metric, layer.points[i], layer.kmeans[k]))

\* C13: loading the file of a street that holds what the save of a lookup
\* table wrote returns the table that was saved, with the same keys and the
\* same values and no row lost, for every table, the non-empty ones included.
C13_AsStated ==
    \A table \in LookupTables :
        (ret.op = "load lookup" /\ ret.vec = AbstractorBytes(table)) =>
            (ret.ok /\ ret.out = table)
\* a table of two rows is saved and loaded as the empty table
C13_Witness ==
    /\ ret.op = "load lookup" /\ ret.ok /\ ret.street = "Turn"
    /\ ret.vec = AbstractorBytes((1 :> Learned(0)) @@ (2 :> Percent(1)))
    /\ disk[LookupFile("Turn")] = ret.vec
    /\ ret.out = <<>>

\* the street of the layer that emits a metric, told from the labels of its
\* pairs; the empty metric is the river's
EmittedBy(m) ==
    IF m = <<>> THEN "Rive"
    ELSE CHOOSE street \in Streets \ {"Rive"} :
            \A pair \in DOMAIN m : \A a \in pair :
                \E k \in 0 .. StreetK[street] - 1 : a = abstracting(street, k)
\* C14: for every metric a layer emits, of any street and any number of
\* entries, Metric.save() completes and Metric::load of the street the metric
\* belongs to then returns a metric with the same pairs and the same
\* distances.
C14_AsStated ==
    \A m \in EmittedMetrics :
        (ret.op = "save metric" /\ ret.out = m) =>
            /\ ret.ok
            /\ Exists(MetricFile(EmittedBy(m)))
            /\ MetricLoaded(disk[MetricFile(EmittedBy(m))]) = [ok |-> TRUE, map |-> m]
\* the metric of a turn layer, 6 entries for 4 centroids, is not saved
C14_Witness ==
    /\ ret.op = "save metric" /\ ~ret.ok /\ halted
    /\ ret.out \in EmittedMetrics /\ EmittedBy(ret.out) = "Turn"
    /\ Cardinality(DOMAIN ret.out) = 6
    /\ ~Exists(MetricFile("Turn"))

\* the files with one byte of the header, of a field count or of a field
\* length replaced, and the files that end inside their last row
Corrupted(images, size) ==
    UNION {{Damaged(b, at) : at \in Framing(b, size)}
              \cup {Cut(b, n) : n \in {n \in 3 .. (size + 3) : Len(b) > 21}} :
           b \in images}
\* C15: loading an artifact in which one byte of the header, of a row's field
\* count or of a row's field length is corrupted, or whose last row is
\* truncated, ends in a fatal error: load returns no map, neither the rows
\* before the damage nor any other.
C15_AsStated ==
    /\ (ret.op = "load lookup"
            /\ ret.vec \in Corrupted({AbstractorBytes(table) : table \in LookupTables}, 24))
          => ~ret.ok
    /\ (ret.op = "load metric"
            /\ ret.vec \in Corrupted({MetricBytes(m) : m \in {m \in Metrics :
                                                                MetricStreet(m) # ""}}, 20))
          => ~ret.ok
\* a metric file of four rows with a damaged field count is loaded without
\* an error as its first two rows
C15_Witness ==
    /\ ret.op = "load metric" /\ ret.ok /\ ~halted
    /\ \E m \in Metrics :
          /\ Cardinality(DOMAIN m) = 4
          /\ ret.vec = Damaged(MetricBytes(m), 19 + 2 * 22 + 2)
          /\ Cardinality(DOMAIN ret.out) = 2
          /\ \A pair \in DOMAIN ret.out : pair \in DOMAIN m /\ ret.out[pair] = m[pair]

\* C16: for every street, Layer::done(street) is true iff the lookup, the
\* decomposition and the metric file of the street all exist; and the save of
\* a layer made for a street completes, with each of the three written under
\* the street's own file name, the metric included, so that done(street) is
\* true afterwards.
C16_AsStated ==
    /\ (ret.op = "done") =>
          (ret.seen <=> /\ LookupFile(ret.street) \in DOMAIN disk
                        /\ DecompFile(ret.street) \in DOMAIN disk
                        /\ MetricFile(ret.street) \in DOMAIN disk)
    /\ (ret.op = "save") =>
          /\ ret.ok
          /\ ret.street = layer.street
          /\ Done(ret.street)
          /\ disk[MetricFile(ret.street)] = MetricBytes(ret.out)
\* the save of a turn layer fails and leaves the turn not done
C16_Witness ==
    /\ ret.op = "save" /\ ~ret.ok /\ halted
    /\ ret.street = "Turn" /\ layer.street = "Turn" /\ Len(layer.kmeans) = StreetK["Turn"]
    /\ Cardinality(DOMAIN ret.out) = 6
    /\ ~Done("Turn") /\ Done("Rive")

\* C17: the initialisation of the centroids is deterministic: a street made
\* twice from the same points and the same prior metric picks the same
\* points in the same order both times.
C17_AsStated ==
    [][(/\ ret.op = "make" /\ ret'.op = "make"
        /\ ret'.street = ret.street /\ ret'.vec = ret.vec /\ ret'.out = ret.out)
            => ret'.run = ret.run]_vars

\* the potentials of Layer::init after the points of run[1 .. n] have been
\* pushed in that order, from the initial weights 1
PotentialsAfter(L, run, n) ==
    LET RECURSIVE After(_)
        After(k) == IF k = 0 THEN [j \in 1 .. Len(L.points) |-> One]
                    ELSE Potentials(L, After(k - 1), run[k])
    IN  After(n)
\* C20: during the initialisation, a point that has been pushed as a centroid
\* has sampling weight 0 in every later round, so that no index is pushed
\* twice and the K initial centroids come from K different points.
C20_PickedOnce ==
    (ret.op = "make" /\ ret.street # "Rive") =>
        LET L == [street |-> ret.street, metric |-> ret.out, points |-> ret.vec,
                  kmeans |-> <<>>]
        IN  /\ \A n \in 1 .. Len(ret.run) : \A k \in 1 .. n :
                  PotentialsAfter(L, ret.run, n)[ret.run[k]] = Zero
            /\ \A i \in 1 .. Len(ret.run), j \in 1 .. Len(ret.run) :
                  i # j => ret.run[i] # ret.run[j]
            /\ ret.ok => Cardinality({ret.run[k] : k \in 1 .. Len(ret.run)})
                            = StreetK[ret.street]
C20_Witness ==
    /\ ret.op = "make" /\ ret.ok /\ ret.street = "Turn"
    /\ ret.run = <<3, 5, 1, 4>>
    /\ \E j \in 1 .. 6 :
          FLt(Zero, PotentialsAfter([street |-> ret.street, metric |-> ret.out,
                                     points |-> ret.vec, kmeans |-> <<>>], ret.run, 3)[j])

\* C18: in every state of the training (witness, update_regret with
\* regret_vector, update_policy with policy_vector), reach(h, e) is at least
\* MIN_POSITIVE for every node h that is not a chance node and every edge e
\* of h the profile holds, and so external_reach(leaf), by which
\* terminal_value divides, is not 0 for any leaf whose path has been visited.
C18_AsStated ==
    /\ \A h \in Nodes : \A e \in Outgoing(h) :
          (PlayerOf[h] # "chance" /\ Visited(BucketOf[h], e))
              => FLe(MIN_POSITIVE, reach(h, e))
    /\ \A leaf \in Nodes :
          (IsLeaf(leaf) /\ PathVisited(leaf)) => external_reach(leaf) # Zero
\* the policy vector of the trainer has stored a positive policy below
\* MIN_POSITIVE, and it is the external reach of a leaf of the next walker
C18_Witness ==
    /\ ret.op = "update_policy" /\ ret.ok /\ ret.bucket = "b2"
    /\ ret.vec = policy_vector("b2")
    /\ FLt(Zero, reach(3, 3)) /\ FLt(reach(3, 3), MIN_POSITIVE)
    /\ strategies["b2"][3].regret = MIN_POSITIVE
    /\ PathVisited(9) /\ walker = "choice1"

\* the leaves two plies below the chance root, each reached by an edge of
\* the first player
TwoPlyLeaves == {leaf \in Nodes : IsLeaf(leaf) /\ Parent[leaf] \in Children(Root)}
\* C19 as stated: with the first player as walker, a chance root of two
\* branches and a choice of the first player under each, every leaf reached
\* by an edge of the first player has external_reach 0.5 and profiled_reach
\* 0.5 * policy(edge).
C19_AsStated ==
    \A leaf \in TwoPlyLeaves :
        (walker = "choice0" /\ PathVisited(leaf)) =>
            /\ external_reach(leaf) = Half
            /\ profiled_reach(leaf) =
                  FMul(Half, strategies[BucketOf[Parent[leaf]]][Incoming[leaf]].policy)
\* C19: a chance edge has reach 1, so that with the first player as walker
\* such a leaf has external_reach 1, the walker's own choice being left out,
\* and profiled_reach policy(edge); with the second player as walker its
\* external_reach is policy(edge) as well.
C19_ChanceReachesOne ==
    \A leaf \in TwoPlyLeaves :
        PathVisited(leaf) =>
            /\ PlayerOf[Root] = "chance" /\ PlayerOf[Parent[leaf]] = "choice0"
            /\ reach(Root, Incoming[Parent[leaf]]) = One
            /\ profiled_reach(leaf) = strategies[BucketOf[Parent[leaf]]][Incoming[leaf]].policy
            /\ walker = "choice0" => external_reach(leaf) = One
            /\ walker = "choice1" =>
                  external_reach(leaf) = strategies[BucketOf[Parent[leaf]]][Incoming[leaf]].policy
C19_Witness ==
    /\ walker = "choice0" /\ PathVisited(4) /\ 4 \in TwoPlyLeaves
    /\ Cardinality(Children(Root)) = 2
    /\ ret.op = "update_policy" /\ ret.ok /\ ret.bucket = "b1"
    /\ strategies["b1"][2].policy = Half
    /\ external_reach(4) = One
    /\ profiled_reach(4) = Half


\* C21: in the assignment step of a Lloyd round every point whose task has
\* run is assigned a centroid at the least EMD from it among the K centroids
\* and, of the centroids at that least distance, the one of lowest index;
\* this holds whichever tasks have run before, so the neighbor of a point is
\* the same in every order of the tasks.
C21_NearestLowestIndex ==
    (ret.op = "next") =>
        \A i \in 1 .. Len(layer.points) :
            ret.vec[i] # 0 =>
                \E d \in {[k \in 1 .. Len(layer.kmeans) |->
                             emd(layer.metric, layer.points[i], layer.kmeans[k])] \o <<>>} :
                    /\ Len(d) = StreetK[layer.street]
                    /\ ret.vec[i] \in 1 .. Len(d)
                    /\ \A j \in 1 .. Len(d) : FLe(d[ret.vec[i]], d[j])
                    /\ \A j \in 1 .. ret.vec[i] - 1 : FLt(d[ret.vec[i]], d[j])
\* the task of the third point has run before the task of the first, and two
\* centroids are at the same least distance from the third point
C21_Witness ==
    /\ ret.op = "next" /\ ret.vec[3] # 0 /\ ret.vec[1] = 0
    /\ \E j \in ret.vec[3] + 1 .. Len(layer.kmeans) :
          /\ emd(layer.metric, layer.points[3], layer.kmeans[j])
                = emd(layer.metric, layer.points[3], layer.kmeans[ret.vec[3]])
          /\ layer.kmeans[j] # layer.kmeans[ret.vec[3]]
          /\ FLt(Zero, emd(layer.metric, layer.points[3], layer.kmeans[j]))


\* the pointwise sum of a sequence of histograms, the empty ones included
SumOf(hs) ==
    LET RECURSIVE Sum(_)
        Sum(n) == IF n = 0 THEN NoHistogram ELSE Absorb(Sum(n - 1), hs[n])
    IN  Sum(Len(hs))
\* the points of a layer whose nearest centroid of lowest index is k
Gathered(L, k) ==
    {i \in 1 .. Len(L.points) :
        \E d \in {[j \in 1 .. Len(L.kmeans) |->
                     emd(L.metric, L.points[i], L.kmeans[j])] \o <<>>} :
            /\ \A j \in 1 .. Len(d) : FLe(d[k], d[j])
            /\ \A j \in 1 .. k - 1 : FLt(d[k], d[j])}
\* C22: a Lloyd round replaces the centroids by exactly K histograms, the
\* k-th being the pointwise sum of the points whose nearest centroid, under
\* the centroids of the round before, is k, so that every point is absorbed
\* into exactly one of them and the pointwise sum of the new centroids is the
\* pointwise sum of the points; the points are not changed, and the new
\* centroids are these whatever the order in which the tasks have run.
C22_RoundGathers ==
    [][(ret.op = "next" /\ ret'.n = ret.n + 1) =>
          /\ Len(layer'.kmeans) = StreetK[layer.street]
          /\ \A k \in 1 .. StreetK[layer.street] :
                layer'.kmeans[k] =
                    SumOf([n \in 1 .. Cardinality(Gathered(layer, k)) |->
                             layer.points[CHOOSE i \in Gathered(layer, k) :
                                 Cardinality({j \in Gathered(layer, k) : j <= i}) = n]])
          /\ \A i \in 1 .. Len(layer.points) :
                Cardinality({k \in 1 .. StreetK[layer.street] : i \in Gathered(layer, k)}) = 1
          /\ SumOf(layer'.kmeans) = SumOf(layer.points)
          /\ layer'.points = layer.points]_vars
\* a round has been done in which one centroid has absorbed two points
C22_Witness ==
    /\ ret.op = "next" /\ ret.n = 1 /\ ret.vec = Pending(layer)
    /\ Len(layer.kmeans) = 4 /\ Len(layer.points) = 6
    /\ SumOf(layer.kmeans) = SumOf(layer.points)
    /\ \E k \in 1 .. 4 : \E i \in 1 .. 6, j \in 1 .. 6 :
          /\ i # j /\ layer.points[i] # layer.points[j]
          /\ layer.kmeans[k] = Absorb(layer.points[i], layer.points[j])


\* the buckets of a profile and the edges each of them holds
KeysOf(s) == [b \in DOMAIN s |-> DOMAIN s[b]]
\* C23: as stated: update_regret and update_policy called for a bucket that
\* was never witnessed, or with an edge that is not in the edge map of the
\* bucket, panic; no update adds a bucket or an edge to the profile, only
\* witness does.
C23_AsStated ==
    [][/\ (updates' = updates + 1) =>
            /\ KeysOf(strategies') = KeysOf(strategies)
            /\ (\/ ret'.bucket \notin DOMAIN strategies
                \/ \E e \in DOMAIN ret'.vec : ~Visited(ret'.bucket, e))
                    => (halted' /\ ~ret'.ok)
       /\ KeysOf(strategies') # KeysOf(strategies) => ret'.op = "witness"]_vars
\* C23: an update panics exactly when its vector holds an edge that the
\* profile does not hold for the bucket, the bucket never witnessed included;
\* with an empty vector it returns and leaves the profile as it was, also
\* for a bucket never witnessed; no update adds a bucket or an edge to the
\* profile, only witness does.
C23_UpdatesNeverInsert ==
    [][/\ (updates' = updates + 1) =>
            /\ KeysOf(strategies') = KeysOf(strategies)
            /\ (\E e \in DOMAIN ret'.vec : ~Visited(ret'.bucket, e))
                    <=> (halted' /\ ~ret'.ok)
            /\ DOMAIN ret'.vec = {} => (strategies' = strategies /\ ~halted' /\ ret'.ok)
       /\ KeysOf(strategies') # KeysOf(strategies) => ret'.op = "witness"]_vars
\* update_regret has panicked at an edge the witnessed bucket does not hold,
\* after writing the edge before it, and the bucket holds no new edge
C23_Witness ==
    /\ ret.op = "update_regret" /\ ~ret.ok /\ halted
    /\ ret.bucket = "b1" /\ "b1" \in DOMAIN strategies
    /\ DOMAIN ret.vec = {2, 3} /\ DOMAIN strategies["b1"] = {1, 2}
    /\ strategies["b1"][2].regret = ret.vec[2]
    /\ "b2" \notin DOMAIN strategies


\* C24: a layer one of whose centroids was left with no point by a Lloyd
\* round keeps that centroid as the empty histogram among its K centroids,
\* and the calls that follow complete: the metric lift returns the K(K-1)/2
\* distances of the K labels and the lookup returns a label for every
\* observation.
C24_AsStated ==
    (/\ layer.street \in {"Flop", "Turn"}
     /\ \E k \in 1 .. Len(layer.kmeans) : layer.kmeans[k] = NoHistogram) =>
        /\ Len(layer.kmeans) = StreetK[layer.street]
        /\ ret.op = "metric" =>
              /\ ret.ok
              /\ Cardinality(DOMAIN ret.out)
                    = (StreetK[layer.street] * (StreetK[layer.street] - 1)) \div 2
        /\ ret.op = "lookup" =>
              /\ ret.ok
              /\ DOMAIN ret.out = 1 .. StreetN[layer.street]
\* the second round of a turn layer has left the second of its four
\* centroids empty: the points gathered by it in the first round have gone to
\* the centroids next to it
C24_Witness ==
    /\ ret.op = "make" /\ ret.ok /\ ~halted /\ layer.street = "Turn"
    /\ ret.run = <<1, 4, 2, 5>>
    /\ Len(layer.kmeans) = 4 /\ layer.kmeans[2] = NoHistogram
    /\ \A k \in {1, 3, 4} : layer.kmeans[k] # NoHistogram
    /\ SumOf(layer.kmeans) = SumOf(layer.points)


\* C25: for every list of N points and every K with N >= K >= 1, points of
\* the same density included, the initialisation returns, with exactly K
\* centroids, each of them one of the points; over the points {A:1}, {B:1}
\* with K = 1 it returns one centroid, the point drawn, and the decomposition
\* has one entry.
C25_AsStated ==
    (ret.op = "init" /\ Len(ret.vec) >= ret.n /\ ret.n >= 1) =>
        /\ ret.ok
        /\ Len(ret.run) = ret.n
        /\ \A j \in 1 .. Len(ret.run) : ret.run[j] \in 1 .. Len(ret.vec)
        /\ Cardinality(DOMAIN ret.out) = ret.n
        /\ \A j \in 1 .. Len(ret.run) :
              ret.out[abstracting(ret.street, j - 1)] = ret.vec[ret.run[j]]
\* the initialisation of one centroid over {A:1}, {B:1} has drawn the second
\* point, and the decomposition has that point as its one entry
C25_Witness ==
    /\ ret.op = "init" /\ ret.ok /\ ~halted /\ ret.n = 1
    /\ ret.vec = <<Histograms("Turn").a, Histograms("Turn").b>>
    /\ ret.run = <<2>>
    /\ DOMAIN ret.out = {abstracting("Turn", 0)}
    /\ ret.out[abstracting("Turn", 0)] = Histograms("Turn").b
====
